---- MODULE Spec2Model ----
(***************************************************************************)
(* A model of rtcompare (github.com/TomTonic/rtcompare): the comparison    *)
(* facade CompareSamples, the bootstrap confidence engine                  *)
(* BootstrapConfidence, the resampler bootstrapSample, the selection       *)
(* algorithm quickselect/QuickMedian and the generator DPRNG.              *)
(*                                                                         *)
(* One call is followed from its entry to its return.  The loops of the    *)
(* code (the replicate loop, the draw loop of bootstrapSample, the         *)
(* quickselect loop) advance one iteration per step, pc naming the place.  *)
(***************************************************************************)
EXTENDS Integers, Sequences, FiniteSets, TLC

VARIABLES
    entry,                  \* the exported function the caller invoked
    pc,                     \* the place the call has reached
    measurementsA,          \* the caller's slice A (read by the callee through an alias)
    measurementsB,          \* the caller's slice B
    callerGains,            \* the caller's relativeGains slice (its backing array)
    relativeGains,          \* the callee's relativeGains (the alias, or the fresh default)
    resamples,              \* parameter resamples
    prngSeed,               \* parameter prngSeed of BootstrapConfidence (64 bits)
    confidenceForThreshold, \* the result map of BootstrapConfidence
    counts,                 \* the hit counters of BootstrapConfidence
    i,                      \* the replicate index
    seedA, seedB,           \* the derived seeds of the current replicate
    sampleA, sampleB,       \* the resampled copies
    j,                      \* the draw index inside bootstrapSample
    rng,                    \* the generator bootstrapSample draws from
    k, low, high,           \* quickselect: the index asked for and the window
    medA, medB,             \* the medians of the current replicate
    deltas,                 \* history: the delta of every replicate run so far
    result, err,            \* what CompareSamples returns
    args,                   \* history: the slices as the caller passed them
    callNo, firstConf, firstSamples, samples, \* the caller's repetition of a call
    instances,              \* the DPRNG values the caller holds, by variable
    built,                  \* history: the arguments and the result of each NewDPRNG
    drawn,                  \* history: the draws made on each value since NewDPRNG
    calls,                  \* history: the number of draws made so far, on any value
    last,                   \* history: the last operation on a DPRNG, and the values before it
    count,                  \* a number of consecutive Uint64 calls (64 bits)
    bit,                    \* the bits of count taken into account so far
    power,                  \* what 2^bit consecutive calls do to State, as a map of its bits
    iterated,               \* what the calls counted by the low bits of count do to State
    timesFaster,            \* F2T: its parameter
    f2t,                    \* F2T: the value it returned
    goos,                   \* the build: "windows" or another system
    qpcFrequency,           \* windows: ticks per second of the performance counter
    t_earlier, t_later,     \* DiffTimeStamps: its parameters
    elapsed,                \* DiffTimeStamps: the value it returned
    precision,              \* the package variable precision
    goroutines,             \* the calls of GetSampleTimePrecision under way, by goroutine
    finished,               \* history: the values the finished calls returned, in order
    cprng,                  \* a CPRNG: bufPos and len(buf)
    pending,                \* the locals of a Uint32N call inside its loop
    reads                   \* history: the last draw of the CPRNG

vars == <<entry, pc, measurementsA, measurementsB, callerGains, relativeGains,
          resamples, prngSeed, confidenceForThreshold, counts, i, seedA, seedB,
          sampleA, sampleB, j, rng, k, low, high, medA, medB, deltas,
          result, err, args, callNo, firstConf, firstSamples, samples,
          instances, built, drawn, calls, last, count, bit, power, iterated,
          timesFaster, f2t, goos, qpcFrequency, t_earlier, t_later, elapsed,
          precision, goroutines, finished, cprng, pending, reads>>

(***************************************************************************)
(* float64.  A value is NaN, an infinity, a rational n/d (cls "fin"), the  *)
(* smallest positive double (cls "min") or a rational scaled by 1e-12      *)
(* (cls "rel", the only place the code multiplies by rel).  The finite     *)
(* values of the model are small integers and halves, on which the         *)
(* float64 operations used by the code are exact.                          *)
(***************************************************************************)
RECURSIVE GCD(_, _)
GCD(a, b) == IF b = 0 THEN a ELSE GCD(b, a % b)

AbsInt(n) == IF n < 0 THEN -n ELSE n

Fin(n, d) ==
    LET g == GCD(AbsInt(n), AbsInt(d))
        s == IF d < 0 THEN -1 ELSE 1
    IN  [cls |-> "fin", n |-> (s * n) \div g, d |-> (s * d) \div g]

NaN == [cls |-> "nan", n |-> 0, d |-> 1]
PInf == [cls |-> "inf", n |-> 1, d |-> 1]
NInf == [cls |-> "inf", n |-> -1, d |-> 1]
Zero == Fin(0, 1)
One == Fin(1, 1)
SmallestNonzeroFloat64 == [cls |-> "min", n |-> 1, d |-> 1]

IsNaN(x) == x.cls = "nan"
IsInf(x, sign) == x.cls = "inf" /\ x.n = sign
IsFinite(x) == x.cls \in {"fin", "min", "rel"}

\* x < y on two values that are not NaN
LtNum(x, y) ==
    CASE x.cls = "inf" -> x.n = -1 /\ y # NInf
      [] y.cls = "inf" -> y.n = 1
      [] x.cls = "fin" /\ y.cls = "fin" -> x.n * y.d < y.n * x.d
      [] x.cls = "fin" -> x.n <= 0            \* y is tiny and positive
      [] y.cls = "fin" -> y.n > 0             \* x is tiny and positive
      [] x.cls = "min" -> y.cls = "rel"
      [] x.cls = "rel" /\ y.cls = "rel" -> x.n * y.d < y.n * x.d
      [] OTHER -> FALSE

\* the comparisons of Go on float64: every comparison with NaN is false
Lt(x, y) == ~IsNaN(x) /\ ~IsNaN(y) /\ LtNum(x, y)
FEq(x, y) == ~IsNaN(x) /\ ~IsNaN(y) /\ x = y
\* >= written as the negation of <, which NaN satisfies
NotLt(x, y) == ~Lt(x, y)
Ge(x, y) == ~IsNaN(x) /\ ~IsNaN(y) /\ ~LtNum(x, y)
Le(x, y) == Ge(y, x)

\* math.Abs
Abs(x) == IF x.cls \in {"fin", "inf"} THEN [x EXCEPT !.n = AbsInt(x.n)] ELSE x

\* math.Max
Max(x, y) ==
    IF IsNaN(x) \/ IsNaN(y) THEN NaN ELSE IF LtNum(x, y) THEN y ELSE x

\* x * rel with rel = 1e-12, for x >= 0
MulRel(x) ==
    CASE IsNaN(x) -> NaN
      [] x.cls = "inf" -> x
      [] x.cls = "fin" /\ x.n = 0 -> Zero
      [] x.cls = "fin" /\ x.n > 0 -> [cls |-> "rel", n |-> x.n, d |-> x.d]

SignOf(x) == IF x.n < 0 THEN -1 ELSE IF x.n > 0 THEN 1 ELSE 0

\* x / y.  A non-zero model value divided by the smallest double, or by
\* zero, overflows to an infinity.
Div(x, y) ==
    CASE IsNaN(x) \/ IsNaN(y) -> NaN
      [] x.cls = "inf" /\ y.cls = "inf" -> NaN
      [] x.cls = "inf" /\ y.cls = "min" -> x
      [] x.cls = "inf" /\ y.cls = "fin" ->
            IF SignOf(y) < 0 THEN [x EXCEPT !.n = -x.n] ELSE x
      [] x.cls = "fin" /\ y.cls = "inf" -> Zero
      [] x.cls = "fin" /\ y.cls = "min" ->
            IF x.n = 0 THEN Zero ELSE IF x.n > 0 THEN PInf ELSE NInf
      [] x.cls = "fin" /\ y.cls = "fin" /\ y.n = 0 ->
            IF x.n = 0 THEN NaN ELSE IF x.n > 0 THEN PInf ELSE NInf
      [] x.cls = "fin" /\ y.cls = "fin" /\ y.n # 0 -> Fin(x.n * y.d, x.d * y.n)

\* 1.0 - x
OneMinus(x) ==
    CASE IsNaN(x) -> NaN
      [] x.cls = "inf" -> [x EXCEPT !.n = -x.n]
      [] x.cls = "fin" -> Fin(x.d - x.n, x.d)

\* float64(c) / float64(r) for integers c >= 0 and r > 0
Ratio(c, r) == Fin(c, r)

(***************************************************************************)
(* uint64.  A 64-bit word is the set of the positions of its one bits      *)
(* (bit 0 the least significant); arithmetic goes through its eight bytes. *)
(***************************************************************************)
Bits == 0..63

Xor(a, b) == (a \ b) \cup (b \ a)
Shr(a, s) == {q - s : q \in {b \in a : b >= s}}
Shl(a, s) == {q + s : q \in {b \in a : b + s <= 63}}

Bit(w, q) == IF q \in w THEN 1 ELSE 0

Limb(w, b) ==
    Bit(w, 8 * b) + 2 * Bit(w, 8 * b + 1) + 4 * Bit(w, 8 * b + 2)
    + 8 * Bit(w, 8 * b + 3) + 16 * Bit(w, 8 * b + 4) + 32 * Bit(w, 8 * b + 5)
    + 64 * Bit(w, 8 * b + 6) + 128 * Bit(w, 8 * b + 7)

\* the bytes of a word, least significant first
Limbs(w) ==
    <<Limb(w, 0), Limb(w, 1), Limb(w, 2), Limb(w, 3),
      Limb(w, 4), Limb(w, 5), Limb(w, 6), Limb(w, 7)>>

FromLimbs(l) == {q \in Bits : (l[(q \div 8) + 1] \div (2 ^ (q % 8))) % 2 = 1}

\* uint64(v) for a small non-negative integer v
U64(v) == {q \in 0..30 : (v \div (2 ^ q)) % 2 = 1}

\* the carry out of the lowest q bytes when the byte columns c are summed
RECURSIVE CarryOut(_, _)
CarryOut(c, q) == IF q = 0 THEN 0 ELSE (c[q] + CarryOut(c, q - 1)) \div 256

\* the word whose byte columns are c, modulo 2^64
FromColumns(c) ==
    FromLimbs([q \in 1..8 |-> (c[q] + CarryOut(c, q - 1)) % 256])

\* a + b modulo 2^64
Add64(a, b) ==
    LET la == Limbs(a)
        lb == Limbs(b)
    IN  FromColumns([q \in 1..8 |-> la[q] + lb[q]])

\* column q (from 1) of the product of two byte sequences
RECURSIVE ColumnSum(_, _, _, _)
ColumnSum(la, lb, q, m) ==
    IF m > q THEN 0 ELSE la[m] * lb[q - m + 1] + ColumnSum(la, lb, q, m + 1)

\* a * b modulo 2^64
Mul64Lo(a, b) ==
    LET la == Limbs(a)
        lb == Limbs(b)
    IN  FromColumns([q \in 1..8 |-> ColumnSum(la, lb, q, 1)])

\* hi of bits.Mul64(a, n) for a small n: floor(a * n / 2^64)
Mul64Hi(a, n) ==
    LET la == Limbs(a) IN CarryOut([q \in 1..8 |-> la[q] * n], 8)

\* a < b on two words
LtU64(a, b) ==
    LET d == Xor(a, b)
    IN  d # {} /\ (CHOOSE m \in d : \A o \in d : o <= m) \in b

\* a - b modulo 2^64
Sub64(a, b) == Add64(a, Add64(Bits \ b, U64(1)))

\* the low 32 bits of a word: the conversion uint32(a)
Uint32(a) == a \cap 0..31

\* one byte y of a long division by f, 0 < f < 2^30, bit by bit: the
\* remainder r so far becomes the remainder of r * 256 + y, and the byte of
\* the quotient is found
ByteDiv(r, y, f) ==
    LET t7 == 2 * r + ((y \div 128) % 2)
        t6 == 2 * (t7 % f) + ((y \div 64) % 2)
        t5 == 2 * (t6 % f) + ((y \div 32) % 2)
        t4 == 2 * (t5 % f) + ((y \div 16) % 2)
        t3 == 2 * (t4 % f) + ((y \div 8) % 2)
        t2 == 2 * (t3 % f) + ((y \div 4) % 2)
        t1 == 2 * (t2 % f) + ((y \div 2) % 2)
        t0 == 2 * (t1 % f) + ((y \div 1) % 2)
    IN  [q |-> 128 * (t7 \div f) + 64 * (t6 \div f) + 32 * (t5 \div f)
               + 16 * (t4 \div f) + 8 * (t3 \div f) + 4 * (t2 \div f)
               + 2 * (t1 \div f) + (t0 \div f),
         r |-> t0 % f]

\* the long division of the bytes l[q], ..., l[8] (the most significant
\* last) by f: the remainder and the bytes of the quotient
RECURSIVE DivFrom(_, _, _)
DivFrom(l, f, q) ==
    IF q > 8 THEN [l |-> <<>>, r |-> 0]
    ELSE LET up == DivFrom(l, f, q + 1)
             d == ByteDiv(up.r, l[q], f)
         IN  [l |-> <<d.q>> \o up.l, r |-> d.r]

\* a / f and a % f for a divisor 0 < f < 2^30
Quot(a, f) ==
    CHOOSE v \in {FromLimbs(DivFrom(l, f, 1).l) : l \in {Limbs(a)}} : TRUE
Rem(a, f) ==
    CHOOSE v \in {DivFrom(l, f, 1).r : l \in {Limbs(a)}} : TRUE

\* int64 in two's complement: the sign, the negation, the order, and the
\* quotient by a positive divisor f, truncated towards zero as Go's / is
IsNeg64(a) == 63 \in a
Neg64(a) == Sub64({}, a)
LtI64(a, b) ==
    IF IsNeg64(a) # IsNeg64(b) THEN IsNeg64(a) ELSE LtU64(a, b)
DivI64(a, f) ==
    IF IsNeg64(a) THEN Neg64(Quot(Neg64(a), f)) ELSE Quot(a, f)
MaxInt64 == 0..62
MinInt64 == {63}

(***************************************************************************)
(* DPRNG (dprng.go)                                                        *)
(***************************************************************************)
\* Vigna's scrambler 0x2545F4914F6CDD1D
vigna == FromLimbs(<<29, 221, 108, 79, 145, 244, 69, 37>>)

\* NewDPRNG taking the seed as it is, zero or not
NewDPRNGSeedKept(seed, rnd) ==
    IF Len(seed) = 0
    THEN [State |-> rnd \cup {0}, Scrambler |-> vigna, Round |-> 0]
    ELSE [State |-> seed[1],
          Scrambler |-> IF Len(seed) > 1 THEN seed[2] \cup {0} ELSE vigna,
          Round |-> 0]

\* NewDPRNG starting from a random state whatever the seed
NewDPRNGRandom(seed, rnd) ==
    [State |-> rnd \cup {0},
     Scrambler |-> IF Len(seed) > 1 THEN seed[2] \cup {0} ELSE vigna,
     Round |-> 0]

\* NewDPRNG(seed...): seed is the argument list; rnd is what rand.Uint64()
\* returns when the code asks for it
NewDPRNG(seed, rnd) ==
    LET random == rnd \cup {0}      \* rnd & 0xFF..FE + 1
    IN  IF Len(seed) = 0
        THEN [State |-> random, Scrambler |-> vigna, Round |-> 0]
        ELSE [State |-> IF seed[1] = {} THEN random ELSE seed[1],
              Scrambler |-> IF Len(seed) > 1 THEN seed[2] \cup {0} ELSE vigna,
              Round |-> 0]

\* the xorshift step with its second shift to the right
XorShiftRight(x) ==
    LET x1 == Xor(x, Shr(x, 12))
        x2 == Xor(x1, Shr(x1, 25))
    IN  Xor(x2, Shr(x2, 27))

\* the xorshift step with a first shift of 13
XorShift13(x) ==
    LET x1 == Xor(x, Shr(x, 13))
        x2 == Xor(x1, Shl(x1, 25))
    IN  Xor(x2, Shr(x2, 27))

\* the xorshift step of Uint64: the new State
XorShift(x) ==
    LET x1 == Xor(x, Shr(x, 12))
        x2 == Xor(x1, Shl(x1, 25))
    IN  Xor(x2, Shr(x2, 27))

\* DPRNG.Uint64: the generator after the call, and the value returned
Uint64(thisState) ==
    LET x == XorShift(thisState.State)
    IN  [rng |-> [thisState EXCEPT !.State = x, !.Round = @ + 1],
         ret |-> Mul64Lo(x, thisState.Scrambler)]

\* UInt32N returning the low 16 bits of the low half of the product
UInt32NLow(thisState, n) ==
    LET u == Uint64(thisState)
        lo == Mul64Lo(u.ret, U64(n))
    IN  [rng |-> u.rng, ret |-> Limb(lo, 0) + 256 * Limb(lo, 1)]

\* DPRNG.UInt32N(n): the generator after the call, and the value returned
UInt32N(thisState, n) ==
    LET u == Uint64(thisState)
    IN  [rng |-> u.rng, ret |-> Mul64Hi(u.ret, n)]

\* Float64 keeping 54 bits of the draw
Float64Shift10(thisState) ==
    LET u == Uint64(thisState)
    IN  [rng |-> u.rng, ret |-> [mant |-> Shr(u.ret, 10), exp |-> -53]]

\* DPRNG.Float64: the generator after the call, and the value returned,
\* mant * 2^exp (float64 holds the 53-bit integer u64>>11 exactly, and so its
\* product with 2^-53)
Float64(thisState) ==
    LET u == Uint64(thisState)
    IN  [rng |-> u.rng, ret |-> [mant |-> Shr(u.ret, 11), exp |-> -53]]

(***************************************************************************)
(* Slices and maps.  A slice is a sequence; index q of the code is q + 1.  *)
(* A Go map keyed by float64 finds a key by ==, so a NaN key is never      *)
(* found again: every store under NaN adds an entry (kept in nan, in the   *)
(* order of the stores) and every load of NaN yields the zero value.       *)
(***************************************************************************)
At(xs, q) == xs[q + 1]
\* an exchange that writes one of the two elements only
SwapOneWay(xs, a, b) == [xs EXCEPT ![a + 1] = xs[b + 1]]
Swap(xs, a, b) == [xs EXCEPT ![a + 1] = xs[b + 1], ![b + 1] = xs[a + 1]]
Range(xs) == {xs[q] : q \in DOMAIN xs}

EmptyMap == [reg |-> <<>>, nan |-> <<>>]
MapHas(m, key) == ~IsNaN(key) /\ key \in DOMAIN m.reg
MapGet(m, key, zero) == IF MapHas(m, key) THEN m.reg[key] ELSE zero
MapSet(m, key, v) ==
    IF IsNaN(key)
    THEN [m EXCEPT !.nan = Append(@, v)]
    ELSE [m EXCEPT !.reg = (key :> v) @@ @]
\* the number of entries, and the values stored under keys equal to key
MapLen(m) == Cardinality(DOMAIN m.reg) + Len(m.nan)

\* cmp.Less on float64, the order of slices.Sort: NaN before every number
CmpLess(x, y) == (IsNaN(x) /\ ~IsNaN(y)) \/ Lt(x, y)

RECURSIVE Insert(_, _)
Insert(x, s) ==
    IF s = <<>> THEN <<x>>
    ELSE IF ~CmpLess(x, Head(s))
         THEN <<Head(s)>> \o Insert(x, Tail(s))
         ELSE <<x>> \o s

\* slices.Sort: the ascending arrangement of s
RECURSIVE SlicesSort(_)
SlicesSort(s) == IF s = <<>> THEN <<>> ELSE Insert(Head(s), SlicesSort(Tail(s)))

(***************************************************************************)
(* partition (mathstuff.go)                                                *)
(***************************************************************************)
\* the loop of partition from index jj on, and the final swap
RECURSIVE PartitionLoop(_, _, _, _, _)
PartitionLoop(xs, pivot, ii, jj, hi) ==
    IF jj >= hi
    THEN [xs |-> Swap(xs, ii, hi), p |-> ii]
    ELSE IF Lt(At(xs, jj), pivot)
         THEN PartitionLoop(Swap(xs, ii, jj), pivot, ii + 1, jj + 1, hi)
         ELSE PartitionLoop(xs, pivot, ii, jj + 1, hi)

\* the pivot is read at low in the place of high
partitionLowPivot(xs, lo, hi) == PartitionLoop(xs, At(xs, lo), lo, lo, hi)

\* partition(xs, low, high): the rearranged slice and the returned index
partition(xs, lo, hi) == PartitionLoop(xs, At(xs, hi), lo, lo, hi)

(***************************************************************************)
(* BootstrapConfidence (rtcompare.go): the parts without a choice          *)
(***************************************************************************)
MinimumDataPoints == 11

\* the derived seeds of replicate ii
IterSeed(seed, ii) == Add64(seed, U64(ii))
DeriveSeedA(seed, ii) ==
    IF seed = {} THEN {} ELSE Add64(Shl(IterSeed(seed, ii), 1), U64(1))
DeriveSeedB(seed, ii) ==
    IF seed = {} THEN {} ELSE Add64(Shl(IterSeed(seed, ii), 1), U64(2))

\* the delta of a replicate from its two medians
Delta(mA, mB) ==
    IF IsNaN(mA) \/ IsNaN(mB)
    THEN NaN
    ELSE IF (FEq(mA, Zero) /\ FEq(mB, Zero)) \/ FEq(mA, mB)
            \/ (IsInf(mA, -1) /\ IsInf(mB, -1)) \/ (IsInf(mA, 1) /\ IsInf(mB, 1))
         THEN Zero
         ELSE LET eps == Max(MulRel(Abs(mB)), SmallestNonzeroFloat64)
                  denom == IF Lt(Abs(mB), eps) THEN eps ELSE mB
              IN  OneMinus(Div(mA, denom))

\* counts[threshold]++ (a uint32; the replicates of the model stay far below 2^32)
Increment(c, threshold) == MapSet(c, threshold, MapGet(c, threshold, 0) + 1)

\* the loop over relativeGains that counts the hits of one replicate
RECURSIVE CountHits(_, _, _, _)
CountHits(c, gains, delta, g) ==
    IF g > Len(gains) THEN c
    ELSE CountHits(IF Ge(delta, gains[g]) THEN Increment(c, gains[g]) ELSE c,
                   gains, delta, g + 1)

\* the loop that turns the counters into confidences
RECURSIVE Confidences(_, _, _, _, _)
Confidences(m, c, gains, reps, g) ==
    IF g > Len(gains) THEN m
    ELSE Confidences(MapSet(m, gains[g], Ratio(MapGet(c, gains[g], 0), reps)),
                     c, gains, reps, g + 1)

\* the loop of the resamples == 0 case dividing the zero count by one
RECURSIVE AllZero(_, _, _)
AllZero(m, gains, g) ==
    IF g > Len(gains) THEN m
    ELSE AllZero(MapSet(m, gains[g], Zero), gains, g + 1)

\* the loop of the resamples == 0 case
RECURSIVE AllNaN(_, _, _)
AllNaN(m, gains, g) ==
    IF g > Len(gains) THEN m
    ELSE AllNaN(MapSet(m, gains[g], NaN), gains, g + 1)

(***************************************************************************)
(* The call, step by step                                                  *)
(***************************************************************************)
NoGen == [kind |-> "none", gen |-> <<>>]

generatorVars == <<instances, built, drawn, calls, last>>
periodVars == <<count, bit, power, iterated>>
f2tVars == <<timesFaster, f2t>>
timeVars == <<goos, qpcFrequency, t_earlier, t_later, elapsed>>
cacheVars == <<precision, goroutines, finished>>
cprngVars == <<cprng, pending, reads>>
auxVars == <<f2tVars, timeVars, cacheVars, cprngVars>>
callerVars == <<measurementsA, measurementsB, args, callNo, firstConf, firstSamples>>
sampleVars == <<sampleA, sampleB, j, rng>>
selectVars == <<k, low, high, medA, medB>>
engineVars == <<confidenceForThreshold, counts, i, seedA, seedB, deltas>>

\* the size check with "and" in the place of "or"
TooFewBoth(A, B) == Len(A) < MinimumDataPoints /\ Len(B) < MinimumDataPoints

\* the size check of CompareSamples
TooFew(A, B) == Len(A) < MinimumDataPoints \/ Len(B) < MinimumDataPoints

\* no default threshold
NoDefaultGains == <<>>

\* the thresholds CompareSamples evaluates when it is given none
DefaultGains == <<Zero>>

\* the records CompareSamples builds from the map conf
ResultRecords(gains, conf) ==
    [g \in 1..Len(gains) |->
        [RelativeSpeedupSampleAvsSampleB |-> gains[g],
         Confidence |-> MapGet(conf, gains[g], Zero)]]

\* CompareSamples sorting a copy of the thresholds it was passed
CompareSamplesSortsCopy ==
    /\ pc = "CompareSamples"
    /\ IF TooFew(measurementsA, measurementsB)
       THEN /\ result' = <<>>
            /\ err' = "not enough data points"
            /\ pc' = "returned"
            /\ UNCHANGED <<relativeGains, callerGains>>
       ELSE /\ relativeGains' =
                 SlicesSort(IF Len(relativeGains) = 0 THEN DefaultGains ELSE relativeGains)
            /\ callerGains' = callerGains
            /\ pc' = "BootstrapConfidence"
            /\ UNCHANGED <<result, err>>
    /\ prngSeed' = U64(0)
    /\ UNCHANGED <<entry, resamples, samples>>
    /\ UNCHANGED <<callerVars, sampleVars, selectVars, engineVars>>
    /\ UNCHANGED generatorVars
    /\ UNCHANGED periodVars
    /\ UNCHANGED auxVars

\* CompareSamples up to its call of BootstrapConfidence (which it calls with
\* prngSeed 0), or its return with the error
CompareSamples ==
    /\ pc = "CompareSamples"
    /\ IF TooFew(measurementsA, measurementsB)
       THEN /\ result' = <<>>
            /\ err' = "not enough data points"
            /\ pc' = "returned"
            /\ UNCHANGED <<relativeGains, callerGains>>
       ELSE /\ relativeGains' =
                 SlicesSort(IF Len(relativeGains) = 0 THEN DefaultGains ELSE relativeGains)
            \* the sort works in the caller's backing array unless the default replaced it
            /\ callerGains' =
                 IF Len(relativeGains) = 0 THEN callerGains ELSE SlicesSort(callerGains)
            /\ pc' = "BootstrapConfidence"
            /\ UNCHANGED <<result, err>>
    /\ prngSeed' = U64(0)
    /\ UNCHANGED <<entry, resamples, samples>>
    /\ UNCHANGED <<callerVars, sampleVars, selectVars, engineVars>>
    /\ UNCHANGED generatorVars
    /\ UNCHANGED periodVars
    /\ UNCHANGED auxVars

\* CompareSamples after BootstrapConfidence has returned conf
CompareSamplesResult ==
    /\ pc = "conf"
    /\ entry = "CompareSamples"
    /\ result' = ResultRecords(relativeGains, confidenceForThreshold)
    /\ err' = "nil"
    /\ pc' = "returned"
    /\ UNCHANGED <<entry, resamples, prngSeed, samples, relativeGains, callerGains>>
    /\ UNCHANGED <<callerVars, sampleVars, selectVars, engineVars>>
    /\ UNCHANGED generatorVars
    /\ UNCHANGED periodVars
    /\ UNCHANGED auxVars

\* where BootstrapConfidence returns to
ReturnPlace == IF entry = "CompareSamples" THEN "conf" ELSE "returned"

\* BootstrapConfidence up to its loop, or its return when resamples == 0
BootstrapConfidence ==
    /\ pc = "BootstrapConfidence"
    /\ IF resamples = 0
       THEN /\ confidenceForThreshold' = AllNaN(EmptyMap, relativeGains, 1)
            /\ pc' = ReturnPlace
            /\ UNCHANGED <<counts, i>>
       ELSE /\ confidenceForThreshold' = EmptyMap
            /\ counts' = EmptyMap
            /\ i' = 0
            /\ pc' = "replicate"
    /\ UNCHANGED <<entry, resamples, prngSeed, samples, relativeGains, callerGains>>
    /\ UNCHANGED <<seedA, seedB, deltas, result, err>>
    /\ UNCHANGED <<callerVars, sampleVars, selectVars>>
    /\ UNCHANGED generatorVars
    /\ UNCHANGED periodVars
    /\ UNCHANGED auxVars

\* the head of the replicate loop: the seeds of replicate i, or the end of
\* the loop and the return of the confidences
Replicate ==
    /\ pc = "replicate"
    /\ IF i < resamples
       THEN /\ seedA' = DeriveSeedA(prngSeed, i)
            /\ seedB' = DeriveSeedB(prngSeed, i)
            /\ pc' = "sampleA"
            /\ UNCHANGED confidenceForThreshold
       ELSE /\ confidenceForThreshold' =
                 Confidences(confidenceForThreshold, counts, relativeGains, resamples, 1)
            /\ pc' = ReturnPlace
            /\ UNCHANGED <<seedA, seedB>>
    /\ UNCHANGED <<entry, resamples, prngSeed, samples, relativeGains, callerGains>>
    /\ UNCHANGED <<counts, i, deltas, result, err>>
    /\ UNCHANGED <<callerVars, sampleVars, selectVars>>
    /\ UNCHANGED generatorVars
    /\ UNCHANGED periodVars
    /\ UNCHANGED auxVars

\* the slice a place of the call works on
Population == IF pc \in {"sampleA", "drawA"} THEN measurementsA ELSE measurementsB
Seed == IF pc \in {"sampleA", "drawA"} THEN seedA ELSE seedB
Sample == IF pc \in {"drawA", "medianA", "selectA"} THEN sampleA ELSE sampleB
AfterSample == IF pc \in {"sampleA", "drawA"} THEN "sampleB" ELSE "medianA"
AfterMedian ==
    IF entry \in {"quickselect", "QuickMedian"} THEN "returned"
    ELSE IF pc \in {"medianA", "selectA"} THEN "medianB" ELSE "delta"

\* the caller's record of the samples of a call it is going to repeat
Recorded(sample) ==
    IF callNo = 0 THEN samples
    ELSE Append(samples, [xs |-> Population, seed |-> Seed, sample |-> sample])

\* bootstrapSample up to its loop: the sample of zeros and the generator, or
\* the return of the empty sample
bootstrapSample ==
    /\ pc \in {"sampleA", "sampleB"}
    /\ LET n == Len(Population)
           sample == [d \in 1..n |-> Zero]
       IN  /\ IF pc = "sampleA"
              THEN sampleA' = sample /\ UNCHANGED sampleB
              ELSE sampleB' = sample /\ UNCHANGED sampleA
           /\ IF n = 0
              THEN /\ pc' = AfterSample
                   /\ samples' = Recorded(sample)
                   /\ UNCHANGED <<j, rng>>
              ELSE /\ rng' = IF Seed # {}
                             THEN [kind |-> "DPRNG", gen |-> NewDPRNG(<<Seed>>, {})]
                             ELSE [kind |-> "CPRNG", gen |-> <<>>]
                   /\ j' = 0
                   /\ pc' = IF pc = "sampleA" THEN "drawA" ELSE "drawB"
                   /\ UNCHANGED samples
    /\ UNCHANGED <<entry, resamples, prngSeed, relativeGains, callerGains, result, err>>
    /\ UNCHANGED <<callerVars, selectVars, engineVars>>
    /\ UNCHANGED generatorVars
    /\ UNCHANGED periodVars
    /\ UNCHANGED auxVars

\* the bytes l (least significant first) from byte q down, modulo n
RECURSIVE ModLimbs(_, _, _, _)
ModLimbs(l, q, n, acc) ==
    IF q = 0 THEN acc ELSE ModLimbs(l, q - 1, n, (acc * 256 + l[q]) % n)

\* the draws of the modulo reduction rng.Uint64() % uint64(n)
DrawsModulo(g, n) ==
    IF g.kind = "DPRNG"
    THEN {[kind |-> "DPRNG", gen |-> r.rng, ret |-> ModLimbs(Limbs(r.ret), 8, n, 0)] :
             r \in {Uint64(g.gen)}}
    ELSE {[kind |-> "CPRNG", gen |-> g.gen, ret |-> idx] : idx \in 0..(n - 1)}

\* the draws a generator can answer UInt32N(n) / Uint32N(n) with, each with
\* the generator it leaves; the CPRNG answers any index below n
Draws(g, n) ==
    IF g.kind = "DPRNG"
    THEN {[kind |-> "DPRNG", gen |-> r.rng, ret |-> r.ret] : r \in {UInt32N(g.gen, n)}}
    ELSE {[kind |-> "CPRNG", gen |-> g.gen, ret |-> idx] : idx \in 0..(n - 1)}

\* one iteration of the loop of bootstrapSample; the last one returns the sample
bootstrapSampleDraw ==
    /\ pc \in {"drawA", "drawB"}
    /\ \E r \in Draws(rng, Len(Population)) :
         LET sample == [Sample EXCEPT ![j + 1] = At(Population, r.ret)]
         IN  /\ IF pc = "drawA"
                THEN sampleA' = sample /\ UNCHANGED sampleB
                ELSE sampleB' = sample /\ UNCHANGED sampleA
             /\ rng' = [kind |-> r.kind, gen |-> r.gen]
             /\ j' = j + 1
             /\ IF j + 1 < Len(Population)
                THEN UNCHANGED <<pc, samples>>
                ELSE pc' = AfterSample /\ samples' = Recorded(sample)
    /\ UNCHANGED <<entry, resamples, prngSeed, relativeGains, callerGains, result, err>>
    /\ UNCHANGED <<callerVars, selectVars, engineVars>>
    /\ UNCHANGED generatorVars
    /\ UNCHANGED periodVars
    /\ UNCHANGED auxVars

\* QuickMedian and quickselect up to the loop, or their return of NaN
QuickMedian ==
    /\ pc \in {"medianA", "medianB"}
    /\ LET n == Len(Sample)
       IN  IF n = 0 \/ n \div 2 >= n
           THEN /\ IF pc = "medianA"
                   THEN medA' = NaN /\ UNCHANGED medB
                   ELSE medB' = NaN /\ UNCHANGED medA
                /\ pc' = AfterMedian
                /\ UNCHANGED <<k, low, high>>
           ELSE /\ k' = n \div 2
                /\ low' = 0
                /\ high' = n - 1
                /\ pc' = IF pc = "medianA" THEN "selectA" ELSE "selectB"
                /\ UNCHANGED <<medA, medB>>
    /\ UNCHANGED <<entry, resamples, prngSeed, samples, relativeGains, callerGains>>
    /\ UNCHANGED <<result, err>>
    /\ UNCHANGED <<callerVars, sampleVars, engineVars>>
    /\ UNCHANGED generatorVars
    /\ UNCHANGED periodVars
    /\ UNCHANGED auxVars

\* the checks of quickselect without the one of k
InvalidEmpty(xs, kk) == Len(xs) = 0

\* the checks quickselect makes before its loop
Invalid(xs, kk) == Len(xs) = 0 \/ kk >= Len(xs)

\* quickselect called on its own, on the caller's slice (held in sampleA)
\* with the caller's k: its checks, up to the loop
quickselectEntry ==
    /\ pc = "quickselect"
    /\ IF Invalid(sampleA, k)
       THEN /\ medA' = NaN
            /\ pc' = "returned"
            /\ UNCHANGED <<low, high>>
       ELSE /\ low' = 0
            /\ high' = Len(sampleA) - 1
            /\ pc' = "selectA"
            /\ UNCHANGED medA
    /\ UNCHANGED <<entry, resamples, prngSeed, samples, relativeGains, callerGains>>
    /\ UNCHANGED <<result, err, k, medB>>
    /\ UNCHANGED <<callerVars, sampleVars, engineVars>>
    /\ UNCHANGED generatorVars
    /\ UNCHANGED periodVars
    /\ UNCHANGED auxVars

\* an iteration that leaves the pivot's index inside the window
SelectStepPivotKept(xs, kk, lo, hi, pivotIndex) ==
    LET pr == partition(Swap(xs, pivotIndex, hi), lo, hi)
    IN  [xs |-> pr.xs,
         done |-> pr.p = kk,
         ret |-> At(pr.xs, pr.p),
         low |-> IF pr.p < kk THEN pr.p ELSE lo,
         high |-> IF pr.p > kk THEN pr.p ELSE hi]

\* what one iteration of the loop of quickselect does to xs with the pivot
\* at pivotIndex: the slice, the window, and the value when it returns
SelectStep(xs, kk, lo, hi, pivotIndex) ==
    LET pr == partition(Swap(xs, pivotIndex, hi), lo, hi)
    IN  [xs |-> pr.xs,
         done |-> pr.p = kk,
         ret |-> At(pr.xs, pr.p),
         low |-> IF pr.p < kk THEN pr.p + 1 ELSE lo,
         high |-> IF pr.p > kk THEN pr.p - 1 ELSE hi]

\* one iteration of the loop of quickselect (the generator of the pivots is
\* seeded at random: any index of the window can come), or the fallback
quickselectLoop ==
    /\ pc \in {"selectA", "selectB"}
    /\ \E st \in IF low <= high
                 THEN {SelectStep(Sample, k, low, high, pivotIndex) :
                          pivotIndex \in low..high}
                 ELSE {[xs |-> Sample, done |-> TRUE, ret |-> At(Sample, k),
                        low |-> low, high |-> high]} :
         /\ IF pc = "selectA"
            THEN sampleA' = st.xs /\ UNCHANGED sampleB
            ELSE sampleB' = st.xs /\ UNCHANGED sampleA
         /\ low' = st.low
         /\ high' = st.high
         /\ IF st.done
            THEN /\ IF pc = "selectA"
                    THEN medA' = st.ret /\ UNCHANGED medB
                    ELSE medB' = st.ret /\ UNCHANGED medA
                 /\ pc' = AfterMedian
            ELSE UNCHANGED <<medA, medB, pc>>
    /\ UNCHANGED <<entry, resamples, prngSeed, samples, relativeGains, callerGains>>
    /\ UNCHANGED <<result, err, k, j, rng>>
    /\ UNCHANGED <<args, callNo, firstConf, firstSamples, engineVars>>
    /\ UNCHANGED generatorVars
    /\ UNCHANGED periodVars
    /\ UNCHANGED auxVars

\* the loop working in the population itself (QuickMedian handed A or B
\* and not the copy)
quickselectPopulation ==
    /\ quickselectLoop
    /\ IF pc = "selectA"
       THEN measurementsA' = sampleA' /\ UNCHANGED measurementsB
       ELSE measurementsB' = sampleB' /\ UNCHANGED measurementsA

\* the loop of quickselect in a call: it works in the slice it was handed,
\* the copy made by bootstrapSample, and A and B stay as they are
quickselect ==
    /\ quickselectLoop
    /\ UNCHANGED <<measurementsA, measurementsB>>

\* the rest of a replicate: delta, the counters, and the next index
ReplicateDelta ==
    /\ pc = "delta"
    /\ \E delta \in {Delta(medA, medB)} :
         /\ counts' = CountHits(counts, relativeGains, delta, 1)
         /\ deltas' = Append(deltas, delta)
    /\ i' = i + 1
    /\ pc' = "replicate"
    /\ UNCHANGED <<entry, resamples, prngSeed, samples, relativeGains, callerGains>>
    /\ UNCHANGED <<confidenceForThreshold, seedA, seedB, result, err>>
    /\ UNCHANGED <<callerVars, sampleVars, selectVars>>
    /\ UNCHANGED generatorVars
    /\ UNCHANGED periodVars
    /\ UNCHANGED auxVars

\* the caller repeats its call of BootstrapConfidence with the same arguments
CallAgain ==
    /\ pc = "returned"
    /\ callNo = 1
    /\ callNo' = 2
    /\ firstConf' = confidenceForThreshold
    /\ firstSamples' = samples
    /\ samples' = <<>>
    /\ deltas' = <<>>
    /\ pc' = "BootstrapConfidence"
    /\ UNCHANGED <<entry, resamples, prngSeed, relativeGains, callerGains, result, err>>
    /\ UNCHANGED <<measurementsA, measurementsB, args, confidenceForThreshold, counts, i>>
    /\ UNCHANGED <<seedA, seedB, sampleVars, selectVars>>
    /\ UNCHANGED generatorVars
    /\ UNCHANGED periodVars
    /\ UNCHANGED auxVars

(***************************************************************************)
(* DPRNG values in the hands of a caller: two variables holding a DPRNG     *)
(* each, built by NewDPRNG, drawn from in any order, and copied by value.   *)
(***************************************************************************)
Names == {"rng1", "rng2"}

MaxDraws == 2

\* argument lists of NewDPRNG: no seed, seed 0, seed 5, seed 2^64 - 1, and
\* seeds 5 and 0 with the even scrambler 2
SeedArgs ==
    {<<>>, <<U64(0)>>, <<U64(5)>>, <<0..63>>, <<U64(5), U64(2)>>, <<U64(0), U64(2)>>}

\* the argument lists each variable is built with: all of them for rng1,
\* seed 5 and seed 0 for rng2
ArgsFor(id) == IF id = "rng1" THEN SeedArgs ELSE {<<U64(5)>>, <<U64(0)>>}

\* what rand.Uint64() returns: 0 and 2^64 - 1
RandVals == {U64(0), 0..63}

\* the bounds n handed to UInt32N
BoundVals == {0, 1, 3}

\* rng := NewDPRNG(seed...)
CallNewDPRNG ==
    /\ pc = "DPRNG"
    /\ calls < MaxDraws
    /\ \E id \in Names, rnd \in RandVals : \E seed \in ArgsFor(id) :
         \E g \in {NewDPRNG(seed, rnd)} :
            /\ instances' = [instances EXCEPT ![id] = g]
            /\ built' = [built EXCEPT ![id] = [seed |-> seed, rng |-> g]]
            /\ drawn' = [drawn EXCEPT ![id] = <<>>]
            /\ last' = [op |-> "NewDPRNG", id |-> id]
            /\ UNCHANGED calls
    /\ UNCHANGED <<entry, pc, resamples, prngSeed, samples, relativeGains, callerGains>>
    /\ UNCHANGED <<result, err, callerVars, sampleVars, selectVars, engineVars>>
    /\ UNCHANGED periodVars
    /\ UNCHANGED auxVars

\* rng1 assigned to, or passed as, rng2: all fields are copied
CopyByValue ==
    /\ pc = "DPRNG"
    /\ calls < MaxDraws
    /\ \E src \in {"rng1"} : \E to \in Names \ {src} :
         /\ instances' = [instances EXCEPT ![to] = instances[src]]
         /\ built' = [built EXCEPT ![to] = built[src]]
         /\ drawn' = [drawn EXCEPT ![to] = drawn[src]]
         /\ last' = [op |-> "copy", id |-> to]
         /\ UNCHANGED calls
    /\ UNCHANGED <<entry, pc, resamples, prngSeed, samples, relativeGains, callerGains>>
    /\ UNCHANGED <<result, err, callerVars, sampleVars, selectVars, engineVars>>
    /\ UNCHANGED periodVars
    /\ UNCHANGED auxVars

\* the caller's variables after the call op(n) on id has left the
\* generator r.rng and returned r.ret
AfterDraw(id, op, n, r) ==
    /\ instances' = [instances EXCEPT ![id] = r.rng]
    /\ drawn' = [drawn EXCEPT ![id] = Append(@, [op |-> op, n |-> n, ret |-> r.ret])]
    /\ last' = [op |-> op, id |-> id, n |-> n, ret |-> r.ret, before |-> instances]
    /\ calls' = calls + 1
    /\ UNCHANGED built
    /\ UNCHANGED <<entry, pc, resamples, prngSeed, samples, relativeGains, callerGains>>
    /\ UNCHANGED <<result, err, callerVars, sampleVars, selectVars, engineVars>>
    /\ UNCHANGED periodVars
    /\ UNCHANGED auxVars

\* rng.Uint64()
CallUint64 ==
    /\ pc = "DPRNG"
    /\ calls < MaxDraws
    /\ \E id \in Names : \E r \in {Uint64(instances[id])} : AfterDraw(id, "Uint64", 0, r)

\* rng.Float64()
CallFloat64 ==
    /\ pc = "DPRNG"
    /\ calls < MaxDraws
    /\ \E id \in Names : \E r \in {Float64(instances[id])} : AfterDraw(id, "Float64", 0, r)

\* rng.UInt32N(n)
CallUInt32N ==
    /\ pc = "DPRNG"
    /\ calls < MaxDraws
    /\ \E id \in Names, n \in BoundVals :
         \E r \in {UInt32N(instances[id], n)} : AfterDraw(id, "UInt32N", n, r)

(***************************************************************************)
(* Many consecutive calls of Uint64.  The step x ^= x >> 12; x ^= x << 25;  *)
(* x ^= x >> 27 is built from shifts and exclusive ors, so the new State is *)
(* the exclusive or of the images of the one bits of the old State: a map   *)
(* m of the bits, m[q] the image of the word with bit q alone.  What n      *)
(* calls do to State is found by doubling, one bit of n per step.           *)
(***************************************************************************)
\* the image of the word v under the map m
Apply(m, v) == {b \in Bits : Cardinality({q \in v : b \in m[q]}) % 2 = 1}

\* first n, then m
Compose(m, n) == [q \in Bits |-> Apply(m, n[q])]

\* no call: every word stays
Identity == [q \in Bits |-> {q}]

\* one call of Uint64
XorShiftMap == [q \in Bits |-> XorShift({q})]

\* the next bit of count: the calls double, and those of the bit are added
Doubling ==
    /\ pc = "period"
    /\ bit < Cardinality(Bits)
    /\ \E m \in {Compose(power, power)} : power' = m
    /\ \E m \in {IF bit \in count THEN Compose(power, iterated) ELSE iterated} :
         iterated' = m
    /\ bit' = bit + 1
    /\ UNCHANGED count
    /\ UNCHANGED <<entry, pc, resamples, prngSeed, samples, relativeGains, callerGains>>
    /\ UNCHANGED <<result, err, callerVars, sampleVars, selectVars, engineVars>>
    /\ UNCHANGED generatorVars
    /\ UNCHANGED auxVars

(***************************************************************************)
(* The calls followed                                                      *)
(***************************************************************************)
MaxGains == 3
MaxResamples == 2

V(n) == Fin(n, 1)
GainVals == {NaN, Fin(-1, 2), Zero, Fin(1, 2)}
GainLists == UNION {[1..m -> GainVals] : m \in 0..MaxGains}

\* populations of CompareSamples: around the minimum size, and empty
FacadePops ==
    {[d \in 1..n |-> v] :
        n \in {0, MinimumDataPoints - 1, MinimumDataPoints}, v \in {V(1), V(2)}}

\* populations of BootstrapConfidence, A with B
PopPairs ==
    { <<  <<V(1), V(2)>>,        <<V(1), V(2)>>  >>,
      <<  <<V(3), V(1), V(2)>>,  <<V(2)>>  >>,
      <<  <<V(0), V(0)>>,        <<V(0), V(0)>>  >>,
      <<  <<V(2), V(2), V(2)>>,  <<V(2), V(2), V(2)>>  >>,
      <<  <<PInf>>,              <<PInf>>  >>,
      <<  <<NInf>>,              <<NInf>>  >>,
      <<  <<PInf>>,              <<NInf>>  >>,
      <<  <<>>,                  <<V(1)>>  >>,
      <<  <<V(1)>>,              <<>>  >>,
      <<  <<NaN>>,               <<V(1)>>  >>,
      <<  <<V(1)>>,              <<V(0)>>  >>,
      <<  <<V(1)>>,              <<PInf>>  >> }

\* base seeds: zero and a small one
Seeds == {U64(0), U64(1)}

\* base seeds of a repeated call: 1, 2^63 - 2 and 2^63 - 1
RepeatSeeds == {U64(1), 1..62, 0..62}

\* populations of a repeated call
RepeatPairs ==
    { <<  <<V(1), V(2)>>,        <<V(1), V(2)>>  >>,
      <<  <<V(3), V(1), V(2)>>,  <<V(2)>>  >> }

\* no DPRNG in the caller's hands
NoInstances ==
    /\ instances = <<>>
    /\ built = <<>>
    /\ drawn = <<>>
    /\ calls = 0
    /\ last = [op |-> "none"]

\* no count of calls under consideration
NoCount ==
    /\ count = {}
    /\ bit = 0
    /\ power = <<>>
    /\ iterated = <<>>

\* no call of F2T
NoF2T ==
    /\ timesFaster = Zero
    /\ f2t = Zero

\* no call of DiffTimeStamps
NoTime ==
    /\ goos = "none"
    /\ qpcFrequency = 0
    /\ t_earlier = {}
    /\ t_later = {}
    /\ elapsed = {}

\* no call of GetSampleTimePrecision
NoCache ==
    /\ precision = -1
    /\ goroutines = <<>>
    /\ finished = <<>>

\* no CPRNG
NoCPRNG ==
    /\ cprng = [bufPos |-> {}, len |-> {}]
    /\ pending = [op |-> "none"]
    /\ reads = [op |-> "none"]

NoAux == NoF2T /\ NoTime /\ NoCache /\ NoCPRNG

InitLocals ==
    /\ confidenceForThreshold = EmptyMap
    /\ counts = EmptyMap
    /\ i = 0
    /\ seedA = {}
    /\ seedB = {}
    /\ sampleA = <<>>
    /\ sampleB = <<>>
    /\ j = 0
    /\ rng = NoGen
    /\ k = 0
    /\ low = 0
    /\ high = 0
    /\ medA = Zero
    /\ medB = Zero
    /\ deltas = <<>>
    /\ result = <<>>
    /\ err = "none"
    /\ samples = <<>>
    /\ firstConf = EmptyMap
    /\ firstSamples = <<>>
    /\ args = [A |-> measurementsA, B |-> measurementsB, relativeGains |-> callerGains]

\* a call of CompareSamples
InitCompare ==
    /\ entry = "CompareSamples"
    /\ pc = "CompareSamples"
    /\ measurementsA \in FacadePops
    /\ measurementsB \in FacadePops
    /\ callerGains \in GainLists
    /\ relativeGains = callerGains
    /\ resamples \in 0..MaxResamples
    /\ prngSeed = {}
    /\ callNo = 0
    /\ InitLocals
    /\ NoInstances
    /\ NoCount
    /\ NoAux

\* a call of BootstrapConfidence
InitEngine ==
    /\ entry = "BootstrapConfidence"
    /\ pc = "BootstrapConfidence"
    /\ \E pair \in PopPairs : measurementsA = pair[1] /\ measurementsB = pair[2]
    /\ callerGains \in GainLists
    /\ relativeGains = callerGains
    /\ resamples \in 0..MaxResamples
    /\ prngSeed \in Seeds
    /\ callNo = 0
    /\ InitLocals
    /\ NoInstances
    /\ NoCount
    /\ NoAux

\* a call of BootstrapConfidence with a seed that is not zero, which the
\* caller repeats
InitRepeat ==
    /\ entry = "BootstrapConfidence"
    /\ pc = "BootstrapConfidence"
    /\ \E pair \in RepeatPairs : measurementsA = pair[1] /\ measurementsB = pair[2]
    /\ callerGains \in GainLists
    /\ relativeGains = callerGains
    /\ resamples \in 0..MaxResamples
    /\ prngSeed \in RepeatSeeds
    /\ callNo = 1
    /\ InitLocals
    /\ NoInstances
    /\ NoCount
    /\ NoAux

NextEngine ==
    \/ BootstrapConfidence
    \/ Replicate
    \/ bootstrapSample
    \/ bootstrapSampleDraw
    \/ QuickMedian
    \/ quickselect
    \/ ReplicateDelta

NextCompare ==
    \/ CompareSamples
    \/ CompareSamplesResult
    \/ NextEngine

SpecCompare == InitCompare /\ [][NextCompare]_vars
SpecEngine == InitEngine /\ [][NextEngine]_vars
SpecRepeat == InitRepeat /\ [][NextEngine \/ CallAgain]_vars

\* slices handed to quickselect and QuickMedian
MaxLen == 3
SelectVals == {NaN, NInf, V(1), V(2)}
SelectSlices == UNION {[1..n -> SelectVals] : n \in 0..MaxLen}

\* a call of quickselect(xs, k) or of QuickMedian(xs) on the caller's slice
InitSelect ==
    /\ entry \in {"quickselect", "QuickMedian"}
    /\ pc = IF entry = "quickselect" THEN "quickselect" ELSE "medianA"
    /\ measurementsA = <<>>
    /\ measurementsB = <<>>
    /\ callerGains = <<>>
    /\ relativeGains = <<>>
    /\ resamples = 0
    /\ prngSeed = {}
    /\ callNo = 0
    /\ sampleA \in SelectSlices
    /\ k \in IF entry = "quickselect" THEN 0..(MaxLen + 1) ELSE {0}
    /\ args = [A |-> sampleA, B |-> <<>>, relativeGains |-> <<>>]
    /\ confidenceForThreshold = EmptyMap
    /\ counts = EmptyMap
    /\ i = 0
    /\ seedA = {}
    /\ seedB = {}
    /\ sampleB = <<>>
    /\ j = 0
    /\ rng = NoGen
    /\ low = 0
    /\ high = 0
    /\ medA = Zero
    /\ medB = Zero
    /\ deltas = <<>>
    /\ result = <<>>
    /\ err = "none"
    /\ samples = <<>>
    /\ firstConf = EmptyMap
    /\ firstSamples = <<>>
    /\ NoInstances
    /\ NoCount
    /\ NoAux

NextSelect ==
    \/ quickselectEntry
    \/ QuickMedian
    \/ quickselect

SpecSelect == InitSelect /\ [][NextSelect]_vars

\* the same calls, run to their end: a call that can take a step takes it
SpecSelectRun == SpecSelect /\ WF_vars(NextSelect)

\* two variables, each holding the result of a NewDPRNG
InitDPRNG ==
    /\ entry = "DPRNG"
    /\ pc = "DPRNG"
    /\ measurementsA = <<>>
    /\ measurementsB = <<>>
    /\ callerGains = <<>>
    /\ relativeGains = <<>>
    /\ resamples = 0
    /\ prngSeed = {}
    /\ callNo = 0
    /\ InitLocals
    /\ \E rnd \in [Names -> RandVals] :
         \E seed \in {f \in [Names -> SeedArgs] : \A id \in Names : f[id] \in ArgsFor(id)} :
            built = [id \in Names |-> [seed |-> seed[id],
                                       rng |-> NewDPRNG(seed[id], rnd[id])]]
    /\ instances = [id \in Names |-> built[id].rng]
    /\ drawn = [id \in Names |-> <<>>]
    /\ calls = 0
    /\ last = [op |-> "none"]
    /\ NoCount
    /\ NoAux

NextDPRNG ==
    \/ CallNewDPRNG
    \/ CopyByValue
    \/ CallUint64
    \/ CallFloat64
    \/ CallUInt32N

SpecDPRNG == InitDPRNG /\ [][NextDPRNG]_vars

\* 2^64 - 1
Period == Bits

\* the primes p that divide 2^64 - 1, each with (2^64 - 1) / p
PrimeFactors ==
    { [p |-> 3,       q |-> FromLimbs(<<85, 85, 85, 85, 85, 85, 85, 85>>)],
      [p |-> 5,       q |-> FromLimbs(<<51, 51, 51, 51, 51, 51, 51, 51>>)],
      [p |-> 17,      q |-> FromLimbs(<<15, 15, 15, 15, 15, 15, 15, 15>>)],
      [p |-> 257,     q |-> FromLimbs(<<255, 0, 255, 0, 255, 0, 255, 0>>)],
      [p |-> 641,     q |-> FromLimbs(<<127, 194, 153, 255, 128, 61, 102, 0>>)],
      [p |-> 65537,   q |-> FromLimbs(<<255, 255, 0, 0, 255, 255, 0, 0>>)],
      [p |-> 6700417, q |-> FromLimbs(<<127, 253, 255, 255, 128, 2, 0, 0>>)] }

\* the counts of calls looked at: 2^64 - 1 and its maximal proper divisors
Counts == {Period} \cup {f.q : f \in PrimeFactors}

\* a count of consecutive Uint64 calls, none taken into account yet
InitPeriod ==
    /\ entry = "period"
    /\ pc = "period"
    /\ measurementsA = <<>>
    /\ measurementsB = <<>>
    /\ callerGains = <<>>
    /\ relativeGains = <<>>
    /\ resamples = 0
    /\ prngSeed = {}
    /\ callNo = 0
    /\ InitLocals
    /\ instances = <<>>
    /\ built = <<>>
    /\ drawn = <<>>
    /\ calls = 0
    /\ last = [op |-> "none"]
    /\ count \in Counts
    /\ bit = 0
    /\ power = XorShiftMap
    /\ iterated = Identity
    /\ NoAux

SpecPeriod == InitPeriod /\ [][Doubling]_vars

(***************************************************************************)
(* The functions and objects beside the comparison: F2T, the timestamps,   *)
(* the cached timer precision and the generator CPRNG.                     *)
(***************************************************************************)
coreVars == <<entry, pc, resamples, prngSeed, samples, relativeGains, callerGains,
              result, err, callerVars, sampleVars, selectVars, engineVars,
              generatorVars, periodVars>>

\* no call of the comparison, no DPRNG and no count of calls
NoCall ==
    /\ measurementsA = <<>>
    /\ measurementsB = <<>>
    /\ callerGains = <<>>
    /\ relativeGains = <<>>
    /\ resamples = 0
    /\ prngSeed = {}
    /\ callNo = 0
    /\ InitLocals
    /\ NoInstances
    /\ NoCount

\* F2T with the check < 0 in place of <= 0
F2TNegative(f) ==
    IF Lt(f, Zero) \/ IsNaN(f) THEN NaN ELSE OneMinus(Div(One, f))

\* F2T(timesFaster)
F2T(f) ==
    IF Le(f, Zero) \/ IsNaN(f) THEN NaN ELSE OneMinus(Div(One, f))

\* a call of F2T
CallF2T ==
    /\ pc = "F2T"
    /\ \E r \in {F2T(timesFaster)} : f2t' = r
    /\ pc' = "returned"
    /\ UNCHANGED timesFaster
    /\ UNCHANGED <<entry, resamples, prngSeed, samples, relativeGains, callerGains>>
    /\ UNCHANGED <<result, err, callerVars, sampleVars, selectVars, engineVars>>
    /\ UNCHANGED <<generatorVars, periodVars, timeVars, cacheVars, cprngVars>>

\* the factors tried reach from 2^-MaxExp to 2^MaxExp
MaxExp == 14

\* the factors tried: NaN, the infinities, zero, the smallest double and the
\* powers of two with either sign (float64 divides 1 by a power of two, and
\* subtracts the quotient from 1, exactly)
Factors ==
    {NaN, PInf, NInf, Zero, SmallestNonzeroFloat64}
        \cup {Fin(sign * (2 ^ e), 1) : sign \in {-1, 1}, e \in 0..MaxExp}
        \cup {Fin(sign, 2 ^ e) : sign \in {-1, 1}, e \in 1..MaxExp}

InitF2T ==
    /\ entry = "F2T"
    /\ pc = "F2T"
    /\ NoCall
    /\ timesFaster \in Factors
    /\ f2t = Zero
    /\ NoTime /\ NoCache /\ NoCPRNG

SpecF2T == InitF2T /\ [][CallF2T]_vars

(***************************************************************************)
(* DiffTimeStamps (sampletime_win.go, sampletime_other.go).  A TimeStamp   *)
(* is what SampleTime returned: on Windows the value of the performance    *)
(* counter, whose ticks per second are qpcFrequency; on the other systems  *)
(* a time.Time, held here as its monotonic reading in nanoseconds.         *)
(***************************************************************************)
\* ns per sec
NsPerSec == Mul64Lo(U64(100000), U64(10000))

\* DiffTimeStamps of sampletime_win.go
DiffTimeStampsWindows(te, tl, freq) ==
    DivI64(Mul64Lo(Sub64(tl, te), NsPerSec), freq)

\* time.Time.Sub on two monotonic readings: the difference, or the largest
\* or the smallest Duration when the difference does not fit
TimeSub(t, u) ==
    LET d == Sub64(t, u)
    IN  IF IsNeg64(d) /\ LtI64(u, t) THEN MaxInt64
        ELSE IF ~IsNeg64(d) /\ d # {} /\ LtI64(t, u) THEN MinInt64
        ELSE d

\* DiffTimeStamps of sampletime_other.go
DiffTimeStampsOther(te, tl) == TimeSub(tl, te)

\* DiffTimeStamps as the build for the system os has it
DiffTimeStamps(os, te, tl, freq) ==
    IF os = "windows"
    THEN DiffTimeStampsWindows(te, tl, freq)
    ELSE DiffTimeStampsOther(te, tl)

\* a call of DiffTimeStamps
CallDiffTimeStamps ==
    /\ pc = "DiffTimeStamps"
    /\ \E r \in {DiffTimeStamps(goos, t_earlier, t_later, qpcFrequency)} :
          elapsed' = r
    /\ pc' = "returned"
    /\ UNCHANGED <<goos, qpcFrequency, t_earlier, t_later>>
    /\ UNCHANGED <<entry, resamples, prngSeed, samples, relativeGains, callerGains>>
    /\ UNCHANGED <<result, err, callerVars, sampleVars, selectVars, engineVars>>
    /\ UNCHANGED <<generatorVars, periodVars, f2tVars, cacheVars, cprngVars>>

\* ticks per second of the performance counter: 10 MHz, and the 3.58 MHz of
\* the ACPI timer
Frequencies == {10000000, 3579545}

\* readings of the counter or of the clock: 0, 1, 10^7, 10^10, and
\* 9223372036 and 9223372037, which lie on either side of (2^63 - 1) / 10^9
Readings ==
    {U64(0), U64(1), U64(10000000), NsPerSec,
     Add64(Mul64Lo(U64(92233), U64(100000)), U64(72036)),
     Add64(Mul64Lo(U64(92233), U64(100000)), U64(72037)),
     Mul64Lo(NsPerSec, U64(10))}

InitTime ==
    /\ entry = "DiffTimeStamps"
    /\ pc = "DiffTimeStamps"
    /\ NoCall
    /\ goos \in {"windows", "other"}
    /\ qpcFrequency \in IF goos = "windows" THEN Frequencies ELSE {0}
    /\ t_earlier \in Readings
    /\ t_later \in Readings
    /\ elapsed = {}
    /\ NoF2T /\ NoCache /\ NoCPRNG

SpecTime == InitTime /\ [][CallDiffTimeStamps]_vars

(***************************************************************************)
(* GetSampleTimePrecision, called from several goroutines.  The package    *)
(* variable precision is read and written without any synchronisation, so  *)
(* the steps of the calls interleave: the comparison with -1, the          *)
(* calibration with the assignment of its result, and the read of the      *)
(* return statement.                                                       *)
(***************************************************************************)
Goroutines == {"g1", "g2"}

\* the calls made in all
MaxCalls == 3

\* what a calibration can measure on one host, in nanoseconds
Measured == {20, 100}

\* the values of precision at the start: not measured yet, or set before
Cached == {-1, 123456}

\* the variables of every other function
otherThanCache ==
    <<coreVars, f2tVars, timeVars, cprngVars>>

\* a goroutine calls GetSampleTimePrecision
CallGetSampleTimePrecision(g) ==
    /\ pc = "precision"
    /\ goroutines[g].pc = "idle"
    /\ Len(finished) + Cardinality({h \in Goroutines : goroutines[h].pc # "idle"}) < MaxCalls
    /\ goroutines' = [goroutines EXCEPT ![g] =
                         [pc |-> "check", after |-> Len(finished), calibrated |-> FALSE]]
    /\ UNCHANGED <<precision, finished>>
    /\ UNCHANGED otherThanCache

\* if precision == int64(-1)
GetSampleTimePrecision(g) ==
    /\ pc = "precision"
    /\ goroutines[g].pc = "check"
    /\ goroutines' = [goroutines EXCEPT ![g].pc =
                         IF precision = -1 THEN "calibrate" ELSE "return"]
    /\ UNCHANGED <<precision, finished>>
    /\ UNCHANGED otherThanCache

\* precision = calcMinTimeSample()
calcMinTimeSample(g) ==
    /\ pc = "precision"
    /\ goroutines[g].pc = "calibrate"
    /\ \E minDiff \in Measured : precision' = minDiff
    /\ goroutines' = [goroutines EXCEPT ![g].pc = "return", ![g].calibrated = TRUE]
    /\ UNCHANGED finished
    /\ UNCHANGED otherThanCache

\* return precision
ReturnPrecision(g) ==
    /\ pc = "precision"
    /\ goroutines[g].pc = "return"
    /\ finished' = Append(finished, [ret |-> precision, g |-> g,
                                     after |-> goroutines[g].after,
                                     calibrated |-> goroutines[g].calibrated])
    /\ goroutines' = [goroutines EXCEPT ![g] = [pc |-> "idle"]]
    /\ UNCHANGED precision
    /\ UNCHANGED otherThanCache

InitPrecision ==
    /\ entry = "GetSampleTimePrecision"
    /\ pc = "precision"
    /\ NoCall
    /\ precision \in Cached
    /\ goroutines = [g \in Goroutines |-> [pc |-> "idle"]]
    /\ finished = <<>>
    /\ NoF2T /\ NoTime /\ NoCPRNG

NextPrecision ==
    \E g \in Goroutines :
        \/ CallGetSampleTimePrecision(g)
        \/ GetSampleTimePrecision(g)
        \/ calcMinTimeSample(g)
        \/ ReturnPrecision(g)

SpecPrecision == InitPrecision /\ [][NextPrecision]_vars

(***************************************************************************)
(* CPRNG (cprng.go).  The buffer holds bytes of crypto/rand: the model      *)
(* keeps its length and bufPos (both uint32) and takes the value of the     *)
(* bytes a draw reads as any value.                                         *)
(***************************************************************************)
\* NewCPRNG(capBytes)
NewCPRNG(capBytes) ==
    [bufPos |-> {}, len |-> IF LtU64(capBytes, U64(8)) THEN U64(8) ELSE capBytes]

\* c.ensure(n) refills: c.bufPos+uint32(n) > uint32(len(c.buf)), in uint32
ensure(c, n) == LtU64(c.len, Uint32(Add64(c.bufPos, U64(n))))

\* a draw of n bytes: ensure(n), the read of buf[bufPos : bufPos+n] (of
\* buf[bufPos] for one byte), which panics outside the buffer, and
\* bufPos += n
Draw(c, n) ==
    LET refill == ensure(c, n)
        lo == IF refill THEN {} ELSE c.bufPos
        hi == Uint32(Add64(lo, U64(n)))
        panic == IF n = 1 THEN ~LtU64(lo, c.len)
                          ELSE LtU64(hi, lo) \/ LtU64(c.len, hi)
    IN  [c |-> IF panic THEN [c EXCEPT !.bufPos = lo] ELSE [c EXCEPT !.bufPos = hi],
         refill |-> refill, lo |-> lo, hi |-> hi, panic |-> panic]

\* the draws made in all
MaxReads == 3

\* the variables of every other function
otherThanCPRNG == <<coreVars, f2tVars, timeVars, cacheVars>>

\* the caller's record of the draw d made by op, the call left in state p
AfterRead(op, n, d, p) ==
    /\ cprng' = d.c
    /\ reads' = [op |-> op, n |-> n, before |-> cprng, refill |-> d.refill,
                 lo |-> d.lo, hi |-> d.hi, panic |-> d.panic,
                 count |-> IF reads.op = "none" THEN 1 ELSE reads.count + 1]
    /\ pending' = p
    /\ pc' = IF d.panic THEN "panic" ELSE "CPRNG"
    /\ UNCHANGED <<entry, resamples, prngSeed, samples, relativeGains, callerGains>>
    /\ UNCHANGED <<result, err, callerVars, sampleVars, selectVars, engineVars>>
    /\ UNCHANGED <<generatorVars, periodVars, f2tVars, timeVars, cacheVars>>

\* a draw can be made: no call is inside its loop, and the budget allows it
CanRead ==
    /\ pc = "CPRNG"
    /\ pending.op # "loop"
    /\ (reads.op # "none" => reads.count < MaxReads)

NoPending == [op |-> "none"]

\* c.Uint8(), c.Int8()
CallUint8 == CanRead /\ \E d \in {Draw(cprng, 1)} : AfterRead("Uint8", 1, d, NoPending)

\* c.Uint16(), c.Int16()
CallUint16 == CanRead /\ \E d \in {Draw(cprng, 2)} : AfterRead("Uint16", 2, d, NoPending)

\* c.Uint32(), c.Int32()
CallUint32 == CanRead /\ \E d \in {Draw(cprng, 4)} : AfterRead("Uint32", 4, d, NoPending)

\* c.Uint64(), c.Int64()
CallCPRNGUint64 == CanRead /\ \E d \in {Draw(cprng, 8)} : AfterRead("Uint64", 8, d, NoPending)

\* c.Float32()
CallFloat32 == CanRead /\ \E d \in {Draw(cprng, 4)} : AfterRead("Float32", 4, d, NoPending)

\* c.Float64()
CallCPRNGFloat64 == CanRead /\ \E d \in {Draw(cprng, 8)} : AfterRead("Float64", 8, d, NoPending)

\* the values of four bytes of the buffer tried: 0, 715827883, 1431655766
\* and 2^32 - 1
Uint32Vals ==
    { {}, FromLimbs(<<171, 170, 170, 42, 0, 0, 0, 0>>),
      FromLimbs(<<86, 85, 85, 85, 0, 0, 0, 0>>), 0..31 }

\* the bounds tried
Uint32NVals == {0, 1, 2, 6}

\* the threshold of Uint32N without the reduction modulo n
threshUnreduced(n) == Uint32(Sub64({}, U64(n)))

\* thresh := uint32(-n) % uint32(n)
thresh(n) == U64(Rem(Uint32(Sub64({}, U64(n))), n))

\* Uint32N after a draw v: prod and low, and whether the call returns
Uint32NStep(n, v, inLoop, redraws) ==
    LET prod == Mul64Lo(v, U64(n))
        lw == Uint32(prod)
        entered == inLoop \/ LtU64(lw, U64(n))
        again == entered /\ LtU64(lw, thresh(n))
    IN  [op |-> IF again THEN "loop" ELSE "done", n |-> n, v |-> v, prod |-> prod,
         low |-> lw, entered |-> entered, redraws |-> redraws,
         ret |-> Shr(prod, 32)]

\* c.Uint32N(n) up to its loop
CallUint32N ==
    /\ CanRead
    /\ \E n \in Uint32NVals, v \in Uint32Vals :
         \E d \in {Draw(cprng, 4)} :
            \E p \in {IF d.panic THEN NoPending ELSE Uint32NStep(n, v, FALSE, 0)} :
                AfterRead("Uint32N", 4, d, p)

\* one iteration of the loop of Uint32N: v = c.Uint32() and the product
Uint32NRedraw ==
    /\ pc = "CPRNG"
    /\ pending.op = "loop"
    /\ reads.count < MaxReads
    /\ \E v \in Uint32Vals :
         \E d \in {Draw(cprng, 4)} :
            \E p \in {IF d.panic THEN NoPending
                       ELSE Uint32NStep(pending.n, v, TRUE, pending.redraws + 1)} :
                AfterRead("Uint32N", 4, d, p)

\* the capacities tried: 0, 7, 8, 9, 11, 2^32 - 8 and 2^32 - 1
CapVals == {U64(0), U64(7), U64(8), U64(9), U64(11), 3..31, 0..31}

\* positions bufPos reaches in a buffer of len bytes: every position from 0
\* to len is reached by that many Uint8 draws; for the buffers of 4 GiB
\* those tried are 0 and the last nine
Positions(len) ==
    {{}} \cup {pos \in {Sub64(len, U64(back)) : back \in 0..8} : 31 \in len}

\* a CPRNG made by NewCPRNG, its buffer read up to some position
InitCPRNG ==
    /\ entry = "CPRNG"
    /\ pc = "CPRNG"
    /\ NoCall
    /\ \E capBytes \in CapVals :
         \E c \in {NewCPRNG(capBytes)} :
            \E pos \in Positions(c.len) : cprng = [c EXCEPT !.bufPos = pos]
    /\ pending = NoPending
    /\ reads = [op |-> "none"]
    /\ NoF2T /\ NoTime /\ NoCache

NextCPRNG ==
    \/ CallUint8
    \/ CallUint16
    \/ CallUint32
    \/ CallCPRNGUint64
    \/ CallFloat32
    \/ CallCPRNGFloat64
    \/ CallUint32N
    \/ Uint32NRedraw

SpecCPRNG == InitCPRNG /\ [][NextCPRNG]_vars

(***************************************************************************)
(* Properties                                                              *)
(***************************************************************************)
Returned == pc = "returned"
InReplicate ==
    pc \in {"sampleA", "drawA", "sampleB", "drawB",
            "medianA", "selectA", "medianB", "selectB", "delta"}

\* how often v occurs in the slice xs
Occurrences(xs, v) == Cardinality({d \in DOMAIN xs : xs[d] = v})
IsPermutation(xs, ys) ==
    /\ Len(xs) = Len(ys)
    /\ \A d \in DOMAIN xs : Occurrences(xs, xs[d]) = Occurrences(ys, xs[d])
IsAscending(xs) == \A a, b \in DOMAIN xs : a < b => ~CmpLess(xs[b], xs[a])

\* the values the map m holds; the value it holds for position g of gains
\* (the entry of the g-th threshold; a NaN threshold has an entry of its own)
MapValues(m) == {m.reg[key] : key \in DOMAIN m.reg} \cup Range(m.nan)
NaNsUpTo(gains, g) == Cardinality({d \in 1..g : IsNaN(gains[d])})
HasEntryFor(m, gains, g) ==
    IF IsNaN(gains[g]) THEN NaNsUpTo(gains, g) <= Len(m.nan)
    ELSE gains[g] \in DOMAIN m.reg
EntryFor(m, gains, g) ==
    IF IsNaN(gains[g]) THEN m.nan[NaNsUpTo(gains, g)] ELSE m.reg[gains[g]]

\* the replicates whose delta met the threshold t
Hits(t) == {r \in DOMAIN deltas : Ge(deltas[r], t)}

\* C1: CompareSamples returns an error and an empty result when A or B has
\* fewer than 11 elements, and no error otherwise; with the error no
\* replicate has run and the caller's three slices are as they were passed.
C1_InsufficientData ==
    (entry = "CompareSamples" /\ Returned) =>
        IF Len(args.A) < 11 \/ Len(args.B) < 11
        THEN /\ err # "nil"
             /\ result = <<>>
             /\ deltas = <<>> /\ i = 0 /\ sampleA = <<>> /\ sampleB = <<>>
             /\ measurementsA = args.A
             /\ measurementsB = args.B
             /\ callerGains = args.relativeGains
        ELSE err = "nil"

\* the error is returned for 11 elements in A and 10 in B, with unsorted thresholds
C1_Witness ==
    /\ entry = "CompareSamples" /\ Returned /\ err # "nil"
    /\ Len(args.A) = 11 /\ Len(args.B) = 10
    /\ args.relativeGains = <<Fin(1, 2), Zero>>

\* C2: with resamples > 0 every confidence BootstrapConfidence returns is a
\* finite number between 0 and 1, whatever the thresholds (repeated or not).
C2_ConfidenceInUnitInterval ==
    (Returned /\ resamples > 0) =>
        \A c \in MapValues(confidenceForThreshold) :
            c.cls = "fin" /\ Le(Zero, c) /\ Le(c, One)

\* C3: with resamples > 0 the confidence returned for a threshold is the
\* number of replicates whose delta met it, divided by resamples.
C3_FractionOfReplicates ==
    (Returned /\ resamples > 0 /\ entry = "BootstrapConfidence") =>
        \A g \in DOMAIN relativeGains :
            /\ HasEntryFor(confidenceForThreshold, relativeGains, g)
            /\ EntryFor(confidenceForThreshold, relativeGains, g)
                 = Ratio(Cardinality(Hits(relativeGains[g])), resamples)

\* C4: a call of BootstrapConfidence repeated with the same arguments and the
\* same non-zero seed returns the same map, and two calls of bootstrapSample
\* with the same population and the same non-zero seed return the same sample.
C4_Reproducible ==
    /\ (Returned /\ callNo = 2 /\ prngSeed # {}) => confidenceForThreshold = firstConf
    /\ \A a \in DOMAIN firstSamples, b \in DOMAIN samples :
         (firstSamples[a].xs = samples[b].xs /\ firstSamples[a].seed = samples[b].seed
            /\ samples[b].seed # {})
         => firstSamples[a].sample = samples[b].sample

\* C5: with a non-zero base seed the two derived seeds of a replicate differ
\* and both select the DPRNG; bootstrapSample draws from the CPRNG exactly
\* when the base seed is zero.
C5_DerivedSeeds ==
    /\ (InReplicate /\ prngSeed # {}) => (seedA # seedB /\ seedA # {} /\ seedB # {})
    /\ pc \in {"drawA", "drawB"} => (rng.kind = "CPRNG" <=> prngSeed = {})

\* C6: with m >= 1 thresholds and enough data CompareSamples returns m
\* records, their thresholds the requested ones in ascending order, each
\* with the confidence the engine holds for that threshold.
C6_SortedRecords ==
    (entry = "CompareSamples" /\ Returned /\ err = "nil" /\ Len(args.relativeGains) >= 1) =>
        LET thresholds == [g \in DOMAIN result |-> result[g].RelativeSpeedupSampleAvsSampleB]
        IN  /\ Len(result) = Len(args.relativeGains)
            /\ IsPermutation(thresholds, args.relativeGains)
            /\ IsAscending(thresholds)
            /\ \A g \in DOMAIN result :
                 /\ HasEntryFor(confidenceForThreshold, thresholds, g)
                 /\ result[g].Confidence = EntryFor(confidenceForThreshold, thresholds, g)

\* C7: with no thresholds and enough data CompareSamples evaluates the one
\* threshold 0.0 and returns one record, for 0.0.
C7_DefaultThreshold ==
    (entry = "CompareSamples" /\ Returned /\ Len(args.relativeGains) = 0
        /\ Len(args.A) >= 11 /\ Len(args.B) >= 11) =>
        /\ Len(result) = 1
        /\ result[1].RelativeSpeedupSampleAvsSampleB = Zero
        /\ relativeGains = <<Zero>>
        /\ MapLen(confidenceForThreshold) = 1

\* CompareSamples has returned for no thresholds, after two replicates
C7_Witness ==
    /\ entry = "CompareSamples" /\ Returned /\ err = "nil"
    /\ args.relativeGains = <<>> /\ resamples = 2 /\ Len(deltas) = 2

\* C8: with resamples = 0 BootstrapConfidence runs no replicate and returns a
\* map that has every requested threshold as a key, each with the value NaN.
C8_ZeroResamples ==
    (entry = "BootstrapConfidence" /\ Returned /\ resamples = 0) =>
        /\ deltas = <<>> /\ sampleA = <<>> /\ sampleB = <<>>
        /\ \A g \in DOMAIN relativeGains :
             /\ HasEntryFor(confidenceForThreshold, relativeGains, g)
             /\ IsNaN(EntryFor(confidenceForThreshold, relativeGains, g))

\* BootstrapConfidence has returned for resamples = 0 and three thresholds,
\* one of them NaN
C8_Witness ==
    /\ entry = "BootstrapConfidence" /\ Returned /\ resamples = 0
    /\ relativeGains = <<Fin(1, 2), NaN, Zero>>
    /\ Len(measurementsA) > 0

\* C9: in one call the confidence does not increase with the threshold: for
\* requested thresholds t1 <= t2 the confidence of t1 is at least that of t2.
C9_Monotone ==
    (entry = "BootstrapConfidence" /\ Returned /\ resamples > 0) =>
        \A g1, g2 \in DOMAIN relativeGains :
            Le(relativeGains[g1], relativeGains[g2]) =>
                Ge(EntryFor(confidenceForThreshold, relativeGains, g1),
                   EntryFor(confidenceForThreshold, relativeGains, g2))

\* the two medians are both zero, equal, or the same infinity
SameMedians == (medA = Zero /\ medB = Zero) \/ FEq(medA, medB)

\* A and B are the same population of one repeated number
SameConstant ==
    /\ measurementsA = measurementsB
    /\ Len(measurementsA) > 0
    /\ \A d \in DOMAIN measurementsA :
         measurementsA[d] = measurementsA[1] /\ ~IsNaN(measurementsA[d])

\* C10: a replicate whose medians are both zero, equal or the same infinity
\* has delta 0; so for A and B the same constant population and
\* resamples > 0 the confidence is 1 for every threshold <= 0 and 0 for
\* every threshold > 0.
C10_EqualMedians ==
    /\ (pc = "replicate" /\ Len(deltas) > 0 /\ SameMedians) => deltas[Len(deltas)] = Zero
    /\ (entry = "BootstrapConfidence" /\ Returned /\ resamples > 0 /\ SameConstant) =>
         \A g \in DOMAIN relativeGains :
            /\ Le(relativeGains[g], Zero) =>
                 EntryFor(confidenceForThreshold, relativeGains, g) = One
            /\ Lt(Zero, relativeGains[g]) =>
                 EntryFor(confidenceForThreshold, relativeGains, g) = Zero

\* C11: a replicate with a NaN median has delta NaN and increments no
\* counter; so with A or B empty and resamples > 0 every requested threshold
\* has an entry in the result, holding exactly 0.0.
C11_NaNMedian ==
    /\ [][(pc = "delta" /\ (IsNaN(medA) \/ IsNaN(medB))) =>
            (counts' = counts /\ IsNaN(deltas'[Len(deltas')]))]_vars
    /\ []((entry = "BootstrapConfidence" /\ Returned /\ resamples > 0
            /\ (measurementsA = <<>> \/ measurementsB = <<>>)) =>
           \A g \in DOMAIN relativeGains :
              /\ HasEntryFor(confidenceForThreshold, relativeGains, g)
              /\ EntryFor(confidenceForThreshold, relativeGains, g) = Zero)

\* BootstrapConfidence has returned after two replicates on an empty A, for
\* a threshold below zero and a repeated threshold
C11_Witness ==
    /\ entry = "BootstrapConfidence" /\ Returned /\ resamples = 2
    /\ measurementsA = <<>> /\ measurementsB # <<>>
    /\ Len(deltas) = 2 /\ IsNaN(deltas[1]) /\ IsNaN(deltas[2])
    /\ relativeGains = <<Fin(-1, 2), Zero, Zero>>

\* the slice held no NaN when it was passed
NaNFree(xs) == \A d \in DOMAIN xs : ~IsNaN(xs[d])

C13_InvalidInput ==
    (\/ entry = "quickselect" /\ (args.A = <<>> \/ k >= Len(args.A))
     \/ entry = "QuickMedian" /\ args.A = <<>>) =>
        /\ pc \in {"quickselect", "medianA", "returned"}
        /\ sampleA = args.A
        /\ Returned => IsNaN(medA)

\* quickselect has returned for two elements and k = 2
C13_Witness ==
    /\ entry = "quickselect" /\ Returned
    /\ args.A = <<V(2), V(1)>> /\ k = 2 /\ IsNaN(medA)

\* the sample of xs that the draws UInt32N(len(xs)) of a generator g give,
\* from position d on
RECURSIVE DrawnFrom(_, _, _, _)
DrawnFrom(xs, g, d, sample) ==
    IF d > Len(xs) THEN sample
    ELSE LET r == UInt32N(g, Len(xs))
         IN  DrawnFrom(xs, r.rng, d + 1, [sample EXCEPT ![d] = At(xs, r.ret)])

\* what bootstrapSample(xs, seed) has to return, given the sample it returned
IsResample(sample, xs, seed) ==
    /\ Len(sample) = Len(xs)
    /\ \A d \in DOMAIN sample : \E idx \in 0..(Len(xs) - 1) : sample[d] = At(xs, idx)
    /\ seed # {} =>
         sample = DrawnFrom(xs, NewDPRNG(<<seed>>, {}), 1, [d \in DOMAIN xs |-> Zero])

C15_PopulationsKept ==
    /\ measurementsA = args.A
    /\ measurementsB = args.B

\* QuickMedian has left the copy of A in another order than it was drawn in
C15_Witness ==
    /\ pc = "medianB" /\ seedA # {}
    /\ measurementsA = <<V(3), V(1), V(2)>>
    /\ sampleA # DrawnFrom(measurementsA, NewDPRNG(<<seedA>>, {}), 1,
                           [d \in DOMAIN measurementsA |-> Zero])

\* the last operation was the draw op; the value it was made on, before and after
LastWas(op) == last.op = op
Before == last.before[last.id]
After == instances[last.id]

\* the seed of an argument list is present and not zero
NonZeroSeed(seed) == Len(seed) >= 1 /\ seed[1] # {}

\* C16: the State of a DPRNG is never zero: NewDPRNG returns a State that is
\* not zero for every argument list, the seed itself when the seed is not
\* zero, and every Uint64, Float64 and UInt32N leaves a State that is not zero.
C16_StateNeverZero ==
    entry = "DPRNG" =>
        \A id \in Names :
            /\ built[id].rng.State # {}
            /\ NonZeroSeed(built[id].seed) => built[id].rng.State = built[id].seed[1]
            /\ instances[id].State # {}

\* a value built with seed 0 and a scrambler has been drawn from twice, the
\* second draw a Float64
C16_Witness ==
    /\ entry = "DPRNG" /\ LastWas("Float64")
    /\ built[last.id].seed = <<U64(0), U64(2)>>
    /\ Len(drawn[last.id]) = 2

\* the draws of a and b agree wherever both made the same call at the same
\* position, and their States agree when they have made as many draws
InStep(a, b) ==
    /\ \A d \in DOMAIN drawn[a] \cap DOMAIN drawn[b] :
         (drawn[a][d].op = drawn[b][d].op /\ drawn[a][d].n = drawn[b][d].n)
            => drawn[a][d].ret = drawn[b][d].ret
    /\ Len(drawn[a]) = Len(drawn[b]) => instances[a].State = instances[b].State

\* a draw leaves every other value as it was
OthersKept ==
    (LastWas("Uint64") \/ LastWas("Float64") \/ LastWas("UInt32N")) =>
        \A id \in Names \ {last.id} : instances[id] = last.before[id]

\* C17 as it is stated: two values built with the same seed and scrambler
\* (whatever the seed) give the same outputs under any interleaving and are
\* in the same state after as many draws, and a draw on one value changes
\* no other value.
C17_SameSeedSameOutputs ==
    entry = "DPRNG" =>
        /\ \A a, b \in Names : built[a].seed = built[b].seed => InStep(a, b)
        /\ OthersKept

\* C17, amended: the same for two values built with the same seed that is
\* not zero and the same scrambler, or starting from the same State and
\* Scrambler.
C17_SameStartSameOutputs ==
    entry = "DPRNG" =>
        /\ \A a, b \in Names :
             /\ (built[a].seed = built[b].seed /\ NonZeroSeed(built[a].seed))
                   => built[a].rng = built[b].rng
             /\ built[a].rng = built[b].rng => InStep(a, b)
        /\ OthersKept

\* two values built separately with seed 5: one drew, then the other drew
\* and is in step again
C17_Witness ==
    /\ entry = "DPRNG"
    /\ built["rng1"].seed = <<U64(5)>> /\ built["rng2"].seed = <<U64(5)>>
    /\ Len(drawn["rng1"]) = 1 /\ Len(drawn["rng2"]) = 1
    /\ drawn["rng1"][1].op = "Uint64" /\ LastWas("Uint64") /\ last.id = "rng2"
    /\ instances["rng1"] = instances["rng2"]

\* x ^= x >> 12; x ^= x << 25; x ^= x >> 27, bit by bit
StepBits(x) ==
    LET x1 == {q \in Bits : (q \in x) # (q + 12 \in x)}
        x2 == {q \in Bits : (q \in x1) # (q >= 25 /\ q - 25 \in x1)}
    IN  {q \in Bits : (q \in x2) # (q + 27 \in x2)}

\* the 13-bit digit d of a word, and a word as its five 13-bit digits
Digit(w, d) ==
    LET weight(q) == IF q <= 63 /\ q \in w THEN 2 ^ (q - 13 * d) ELSE 0
    IN  weight(13 * d) + weight(13 * d + 1) + weight(13 * d + 2) + weight(13 * d + 3)
        + weight(13 * d + 4) + weight(13 * d + 5) + weight(13 * d + 6) + weight(13 * d + 7)
        + weight(13 * d + 8) + weight(13 * d + 9) + weight(13 * d + 10) + weight(13 * d + 11)
        + weight(13 * d + 12)
Digits(w) == <<Digit(w, 0), Digit(w, 1), Digit(w, 2), Digit(w, 3), Digit(w, 4)>>

\* x * sc modulo 2^64 by long multiplication in base 2^13: digit d of the
\* product and the carry into it
RECURSIVE ProductColumn(_, _, _)
ProductColumn(dx, ds, d) ==
    LET sum == IF d = 0 THEN 0 ELSE ProductColumn(dx, ds, d - 1) \div 8192
    IN  sum + dx[1] * ds[d + 1]
            + (IF d >= 1 THEN dx[2] * ds[d] ELSE 0)
            + (IF d >= 2 THEN dx[3] * ds[d - 1] ELSE 0)
            + (IF d >= 3 THEN dx[4] * ds[d - 2] ELSE 0)
            + (IF d >= 4 THEN dx[5] * ds[d - 3] ELSE 0)
LongProduct(x, sc) ==
    LET dx == Digits(x)
        ds == Digits(sc)
    IN  {q \in Bits : (ProductColumn(dx, ds, q \div 13) \div (2 ^ (q % 13))) % 2 = 1}

\* C18: Uint64 stores x ^= x >> 12; x ^= x << 25; x ^= x >> 27 of the State
\* as the new State, adds one to Round, keeps Scrambler and returns
\* x * Scrambler modulo 2^64.
C18_Uint64Step ==
    (entry = "DPRNG" /\ LastWas("Uint64")) =>
        /\ After.State = StepBits(Before.State)
        /\ After.Round = Before.Round + 1
        /\ After.Scrambler = Before.Scrambler
        /\ last.ret = LongProduct(After.State, Before.Scrambler)

\* the first Uint64 of NewDPRNG(5): State 0x000000000A000004, returned
\* 0x423212E85FB37474
C18_Witness ==
    /\ entry = "DPRNG" /\ LastWas("Uint64")
    /\ built[last.id].seed = <<U64(5)>> /\ Len(drawn[last.id]) = 1
    /\ After.State = FromLimbs(<<4, 0, 0, 10, 0, 0, 0, 0>>)
    /\ last.ret = FromLimbs(<<116, 116, 179, 95, 232, 18, 50, 66>>)

\* how often the sum wraps around 2^64 when u is added m more times to acc
RECURSIVE Wraps(_, _, _)
Wraps(u, acc, m) ==
    IF m = 0 THEN 0
    ELSE LET sum == Add64(acc, u)
         IN  (IF LtU64(sum, u) THEN 1 ELSE 0) + Wraps(u, sum, m - 1)

\* C20: UInt32N(n) makes one Uint64 draw u and returns floor(u * n / 2^64),
\* which is below n for n >= 1 and 0 for n = 0 and n = 1.
C20_UInt32N ==
    (entry = "DPRNG" /\ LastWas("UInt32N")) =>
        LET u == Uint64(Before)
        IN  /\ After = u.rng
            /\ After.Round = Before.Round + 1
            /\ last.ret = Wraps(u.ret, {}, last.n)
            /\ last.n >= 1 => (0 <= last.ret /\ last.ret < last.n)
            /\ last.n \in {0, 1} => last.ret = 0

\* the first draw of NewDPRNG(2^64 - 1) was UInt32N(3) and returned 2
C20_Witness ==
    /\ entry = "DPRNG" /\ LastWas("UInt32N") /\ last.n = 3 /\ last.ret = 2
    /\ built[last.id].seed = <<0..63>> /\ Len(drawn[last.id]) = 1

\* p is a prime (for p below 2601 * 2601)
IsPrime(p) == p >= 2 /\ \A d \in 2..2600 : d * d <= p => p % d # 0

\* the product of the primes of fs, modulo 2^64
RECURSIVE ProductOf(_)
ProductOf(fs) ==
    IF fs = {} THEN U64(1)
    ELSE LET f == CHOOSE g \in fs : TRUE
         IN  Mul64Lo(U64(f.p), ProductOf(fs \ {f}))

\* 2^64 - 1 is the product of the primes of PrimeFactors, and the count
\* paired with p is (2^64 - 1) / p
Factored ==
    /\ \A f \in PrimeFactors :
         /\ IsPrime(f.p)
         /\ Mul64Lo(f.q, U64(f.p)) = Period
         /\ Mul64Hi(f.q, f.p) = 0
    /\ ProductOf(PrimeFactors) = Period

\* 0x59071D96D81ECD35, the inverse of vigna modulo 2^64
vignaInverse == FromLimbs(<<53, 205, 30, 216, 150, 29, 7, 89>>)

\* the words cs[1], cs[2], ... are independent: no exclusive or of some of
\* them is zero (by elimination on a one bit of the first word)
RECURSIVE Independent(_)
Independent(cs) ==
    IF Len(cs) = 0 THEN TRUE
    ELSE IF Head(cs) = {} THEN FALSE
    ELSE LET c == Head(cs)
             b == CHOOSE x \in c : TRUE
         IN  \E rest \in {[n \in 1..(Len(cs) - 1) |->
                               IF b \in cs[n + 1]
                               THEN (cs[n + 1] \ c) \cup (c \ cs[n + 1])
                               ELSE cs[n + 1]]} :
                 Independent(rest)

\* the map m brings no State back but zero: the words m[q] xor {q} are
\* independent
NoStateReturns(m) ==
    Independent([n \in 1..Cardinality(Bits) |->
                    (m[n - 1] \ {n - 1}) \cup ({n - 1} \ m[n - 1])])

\* C19: the State sequence has period 2^64 - 1 from any State that is not
\* zero.  2^64 - 1 calls bring every State back, so the step is a bijection
\* and the number of calls after which a State first returns divides
\* 2^64 - 1; a proper divisor of 2^64 - 1 divides (2^64 - 1) / p for a prime
\* p, and (2^64 - 1) / p calls bring no State back but zero.  The output is
\* the State times an odd Scrambler, so it repeats only when the State does.
C19_FullPeriod ==
    entry = "period" =>
        /\ bit = 0 => Factored
        /\ \A q \in Bits : Apply(XorShiftMap, power[q]) = XorShift(power[q])
        /\ bit = Cardinality(Bits) =>
             IF count = Period THEN iterated = Identity
                               ELSE NoStateReturns(iterated)
        /\ 0 \in vigna /\ Mul64Lo(vigna, vignaInverse) = U64(1)

\* all 64 bits of the count 2^64 - 1 are taken into account: the calls
\* leave every State as it was
C19_Witness ==
    /\ entry = "period" /\ count = Period /\ bit = 64
    /\ iterated = Identity /\ power = XorShiftMap
    /\ XorShift(U64(1)) = FromLimbs(<<1, 0, 0, 2, 0, 0, 0, 0>>)


\* C21: Float64 makes one Uint64 draw u and returns (u >> 11) * 2^-53 with
\* u >> 11 an integer of [0, 2^53): a finite value that is at least 0 and
\* below 1 (the integer is below 2^53, the weight of its unit is 2^-53).
C21_Float64 ==
    (entry = "DPRNG" /\ LastWas("Float64")) =>
        LET u == Uint64(Before)
        IN  /\ After = u.rng
            /\ After.Round = Before.Round + 1
            /\ last.ret.mant = {b \in 0..52 : b + 11 \in u.ret}
            /\ LtU64(last.ret.mant, {53})
            /\ last.ret.exp = -53

\* a Float64 draw that returned a value of [1/2, 1): bit 63 of the draw is set
C21_Witness ==
    /\ entry = "DPRNG" /\ LastWas("Float64")
    /\ 63 \in Uint64(Before).ret /\ 52 \in last.ret.mant

C22_WitnessZero ==
    /\ entry = "F2T" /\ Returned
    /\ timesFaster = Zero /\ IsNaN(f2t)

\* C23: the timer precision is computed once and reused: a call of
\* GetSampleTimePrecision that starts after some call has returned p does
\* not calibrate and returns p, under any interleaving of the callers; and a
\* value cached at the start is returned without calibration.
C23_ComputedOnce ==
    entry = "GetSampleTimePrecision" =>
        \A y \in DOMAIN finished :
            /\ \A x \in 1..finished[y].after :
                 /\ finished[y].ret = finished[x].ret
                 /\ ~finished[y].calibrated
            /\ \A g \in Goroutines :
                 (goroutines[g].pc # "idle" /\ goroutines[g].after >= y)
                    => ~goroutines[g].calibrated

\* the same for the calls that no other call overlaps: the finished calls
\* and the call under way were made one after the other
Sequential ==
    /\ \A y \in DOMAIN finished : finished[y].after = y - 1
    /\ \A g \in Goroutines :
         goroutines[g].pc # "idle" => goroutines[g].after = Len(finished)

\* C23 for calls made one after the other
C23_Sequential == Sequential => C23_ComputedOnce

\* (2^32 - n) mod n for 0 < n < 2^15, which is 2^32 mod n
ThresholdOf(n) == U64(((65536 % n) * (65536 % n)) % n)

\* C24: Uint32N(n) returns a value below n for n >= 2 and 0 for n = 0 and
\* n = 1, without dividing by zero; it is inside its rejection loop only
\* after a draw whose product had its low 32 bits below n, and it redraws
\* until they are at least (2^32 - n) mod n.
C24_Uint32N ==
    (entry = "CPRNG" /\ pending.op \in {"loop", "done"}) =>
        LET n == pending.n
        IN  /\ pending.entered => n # 0
            /\ pending.op = "loop" =>
                 /\ pending.entered
                 /\ LtU64(pending.low, ThresholdOf(n))
                 /\ pending.redraws = 0 => LtU64(pending.low, U64(n))
            /\ pending.op = "done" =>
                 /\ pending.redraws > 0 => pending.entered
                 /\ pending.entered => ~LtU64(pending.low, ThresholdOf(n))
                 /\ n >= 2 => LtU64(pending.ret, U64(n))
                 /\ n \in {0, 1} => pending.ret = {}

\* Uint32N(6) has drawn 715827883 (the low bits of the product are 2, below
\* the threshold 4), drawn again and returned
C24_Witness ==
    /\ entry = "CPRNG" /\ pending.op = "done" /\ pending.n = 6
    /\ pending.redraws = 1 /\ pending.ret = U64(2)

\* a draw of n bytes as the buffer's bookkeeping should make it, from the
\* state before: whether it refills, and where it reads
Unread(c) == Sub64(c.len, c.bufPos)

\* C29: bufPos never exceeds len(buf); each draw of s bytes reads
\* buf[bufPos .. bufPos+s) inside the buffer and advances bufPos by s; the
\* buffer is refilled, and bufPos reset to 0, exactly when fewer than s
\* unread bytes remain, so a draw begins where the one before it ended.
C29_ReadsInsideBuffer ==
    entry = "CPRNG" =>
        /\ ~LtU64(cprng.len, cprng.bufPos)
        /\ ~LtU64(cprng.len, U64(8))
        /\ reads.op # "none" =>
             /\ ~reads.panic
             /\ reads.refill <=> LtU64(Unread(reads.before), U64(reads.n))
             /\ reads.lo = IF reads.refill THEN {} ELSE reads.before.bufPos
             /\ ~LtU64(cprng.len, Add64(reads.lo, U64(reads.n)))
             /\ cprng.bufPos = Add64(reads.lo, U64(reads.n))

\* C29 for the buffers below 2^31 bytes
C29_SmallBuffers == 31 \notin cprng.len => C29_ReadsInsideBuffer

\* the medians of the replicate just run fall under none of the cases NaN
\* and delta = 0
RatioCase ==
    /\ ~IsNaN(medA) /\ ~IsNaN(medB)
    /\ ~((FEq(medA, Zero) /\ FEq(medB, Zero)) \/ FEq(medA, medB))

\* C25: in a replicate whose medians are not NaN and not covered by the
\* delta = 0 cases, delta = 1 - medianA/denom, denom being medianB unless
\* |medianB| < eps = max(|medianB| * 1e-12, smallest positive double), and
\* then eps; this delta is finite; with medianB = 0 and medianA > 0 the
\* replicate meets no threshold >= 0, so a positive constant A against B all
\* zeros gives confidence 0.0 at threshold 0.0.
C25_FiniteDelta ==
    /\ (entry = "BootstrapConfidence" /\ pc = "replicate" /\ deltas # <<>>
            /\ RatioCase) =>
          LET delta == deltas[Len(deltas)]
              eps == Max(MulRel(Abs(medB)), SmallestNonzeroFloat64)
              denom == IF Lt(Abs(medB), eps) THEN eps ELSE medB
          IN  /\ delta = OneMinus(Div(medA, denom))
              /\ IsFinite(delta)
              /\ (FEq(medB, Zero) /\ Lt(Zero, medA)) =>
                    \A g \in DOMAIN relativeGains :
                        Ge(relativeGains[g], Zero) => ~Ge(delta, relativeGains[g])
    /\ (entry = "BootstrapConfidence" /\ Returned /\ resamples > 0
            /\ measurementsA # <<>> /\ measurementsB # <<>>
            /\ (\A d \in DOMAIN measurementsA : measurementsA[d] = V(1))
            /\ (\A d \in DOMAIN measurementsB : measurementsB[d] = Zero)) =>
          \A g \in DOMAIN relativeGains :
              relativeGains[g] = Zero =>
                 EntryFor(confidenceForThreshold, relativeGains, g) = Zero

\* quickselect is in its loop, on the slice it was handed
InLoop == entry \in {"quickselect", "QuickMedian"} /\ pc = "selectA"

\* C26: in the loop of quickselect 0 <= low <= k <= high < len(xs) holds at
\* every iteration (so high = p - 1 never goes below zero and the fallback
\* after the loop, taken with low > high, is never reached), the window
\* [low, high] strictly shrinks in every iteration that does not return, and
\* the call returns, from the loop with the element at index k.
C26_LoopTerminates ==
    /\ [](InLoop => (0 <= low /\ low <= k /\ k <= high /\ high < Len(sampleA)))
    /\ [][(InLoop /\ pc' = pc) => (high' - low' < high - low)]_vars
    /\ [][(InLoop /\ pc' = "returned") => (medA' = At(sampleA', k))]_vars
    /\ <>Returned

\* both assignments have been made: low = p + 1 and then high = p - 1
C26_Witness ==
    /\ InLoop /\ entry = "quickselect"
    /\ Len(sampleA) = 3 /\ k = 1 /\ low = 1 /\ high = 1

\* C27: quickselect and QuickMedian only permute their input: after a call
\* the slice holds the same multiset of values as before; when the input
\* held no NaN and the call selected an element, that element is at index k,
\* no element before index k is greater and no element after it is smaller.
C27_OnlyPermutes ==
    (entry \in {"quickselect", "QuickMedian"} /\ Returned) =>
        /\ IsPermutation(sampleA, args.A)
        /\ IsPermutation(args.A, sampleA)
        /\ (NaNFree(args.A) /\ ~Invalid(args.A, k)) =>
              /\ At(sampleA, k) = medA
              /\ \A d \in 0..(Len(sampleA) - 1) :
                    /\ d < k => ~Lt(medA, At(sampleA, d))
                    /\ d > k => ~Lt(At(sampleA, d), medA)

\* quickselect has returned the middle one of three distinct values, and the
\* slice is no longer in the order in which it was passed
C27_Witness ==
    /\ entry = "quickselect" /\ Returned /\ k = 1
    /\ args.A = <<V(2), V(1), NInf>> /\ medA = V(1)
    /\ sampleA = <<NInf, V(1), V(2)>>

\* C28: a CompareSamples that succeeds with a non-empty relativeGains has
\* sorted the caller's slice in place: after the call it holds the same
\* values, in ascending order; with relativeGains nil or empty the default
\* {0.0} is a slice of its own and nothing of the caller's is written.
C28_SortsCallersSlice ==
    (entry = "CompareSamples" /\ Returned /\ err = "nil") =>
        IF Len(args.relativeGains) > 0
        THEN /\ IsPermutation(callerGains, args.relativeGains)
             /\ IsPermutation(args.relativeGains, callerGains)
             /\ IsAscending(callerGains)
             /\ callerGains = relativeGains
        ELSE /\ callerGains = args.relativeGains
             /\ relativeGains = <<Zero>>
             /\ measurementsA = args.A
             /\ measurementsB = args.B

\* CompareSamples has succeeded for thresholds passed in descending order
C28_Witness ==
    /\ entry = "CompareSamples" /\ Returned /\ err = "nil"
    /\ args.relativeGains = <<Fin(1, 2), Zero>>
    /\ callerGains = <<Zero, Fin(1, 2)>>

\* C30: DiffTimeStamps(t_earlier, t_later) is not negative when t_later is
\* not earlier than t_earlier, and negative only when the two are in
\* reversed order; on Windows it is (t_later - t_earlier) * 1_000_000_000 /
\* frequency in int64 arithmetic.
C30_SignOfDifference ==
    (entry = "DiffTimeStamps" /\ Returned) =>
        /\ ~LtI64(t_later, t_earlier) => ~IsNeg64(elapsed)
        /\ IsNeg64(elapsed) => LtI64(t_later, t_earlier)
        /\ goos = "windows" =>
             LET ticks == Sub64(t_later, t_earlier)
                 ns == Mul64Lo(ticks, NsPerSec)
             IN  elapsed = DivI64(ns, qpcFrequency)

\* the performance counter has advanced by fewer than 2^33 ticks
ShortInterval == Sub64(t_later, t_earlier) \subseteq 0..32

\* for timestamps in order and less than 2^33 ticks apart the result is not
\* negative, and on Windows it is floor(ticks * 10^9 / frequency)
C30_ShortIntervals ==
    (entry = "DiffTimeStamps" /\ Returned /\ ~LtI64(t_later, t_earlier)
        /\ ShortInterval) =>
        /\ ~IsNeg64(elapsed)
        /\ goos = "windows" =>
             /\ ~LtU64(Mul64Lo(Sub64(t_later, t_earlier), NsPerSec),
                       Mul64Lo(elapsed, U64(qpcFrequency)))
             /\ LtU64(Mul64Lo(Sub64(t_later, t_earlier), NsPerSec),
                      Mul64Lo(Add64(elapsed, U64(1)), U64(qpcFrequency)))

====
